---------------------------- MODULE Spec2Model ----------------------------
(***************************************************************************)
(* A model of tinkoff-e2c: the CryptoPro signer adapter (cryptopro.py) and *)
(* the Tinkoff E2C gateway client (tinkoff.py).                            *)
(*                                                                         *)
(* Python strings are TLA+ strings (concatenated with \o); Python values   *)
(* of mixed type are tagged records [t |-> type, v |-> value]; a dict is   *)
(* the sequence of its [k, v] items in insertion order.                    *)
(***************************************************************************)
EXTENDS Integers, Sequences, FiniteSets, TLC

VARIABLES
    \* ---- gateway client (tinkoff.py) ----
    pc,        \* position of the running gateway operation
    op,        \* the operation called
    args,      \* the inputs it was called with
    data,      \* kwargs['data'], the request field dict
    signed,    \* the dict _get_sign was handed, the signing content and bundle
    sent,      \* the requests handed to the transport by this operation
    response,  \* the transport's reply
    outcome,   \* what the operation gave its caller: a result or an exception
    log,       \* external invocations of this operation, in order
    cpInits,   \* how often the client constructed its CryptoPro instance
    nOps,      \* operations started on this client
    \* ---- signer adapter (cryptopro.py) ----
    fs,        \* the temporary directory: path -> file content
    call,      \* the last hash/sign/serial call: inputs and outcome
    nCalls     \* signer calls made

gwVars == <<pc, op, args, data, signed, sent, response, outcome, log, cpInits, nOps>>
cpVars == <<fs, call, nCalls>>
vars == <<pc, op, args, data, signed, sent, response, outcome, log, cpInits, nOps,
          fs, call, nCalls>>

----------------------------------------------------------------------------
(* Bounds of the model *)

\* Gateway operations run one after another on one client.
MaxOps == 2
\* hash/sign calls made one after another on one signer.
MaxCalls == 2
\* Chunks and newlines in the signer process's error stream.
MaxStream == 4
\* Records in a container list / certificate list.
MaxRecords == 2
\* the most lines of output csptest -enum_cont writes
MaxContainerLines == 3
\* the most lines of output certmgr -list writes
MaxCertificateLines == 5
\* callers that may be inside get_hash / get_sign at the same time
MaxThreads == 2

----------------------------------------------------------------------------
(* Python values *)

S(s) == [t |-> "str", v |-> s]
I(i) == [t |-> "int", v |-> i]
Y(b) == [t |-> "bytes", v |-> b]
B(b) == [t |-> "bool", v |-> b]
L(l) == [t |-> "list", v |-> l]
D(d) == [t |-> "dict", v |-> d]
None == [t |-> "none", v |-> 0]

\* str(x)
Str(x) ==
    CASE x.t = "str" -> x.v
      [] x.t = "int" -> ToString(x.v)
      [] x.t = "none" -> "None"
      [] x.t = "bool" -> IF x.v THEN "True" ELSE "False"

\* bool(x): Python truthiness
Truthy(x) ==
    CASE x.t = "str" -> x.v # ""
      [] x.t = "int" -> x.v # 0
      [] x.t = "none" -> FALSE
      [] x.t = "bool" -> x.v
      [] x.t = "bytes" -> x.v # <<>>
      [] x.t = "list" -> x.v # <<>>
      [] x.t = "dict" -> DOMAIN x.v # {}

\* value.encode('utf-8'): the bytes of a string, kept as the string they encode
Encode(content) == IF content.t = "str" THEN [t |-> "utf8", v |-> content.v] ELSE content

RECURSIVE Cat(_)
\* ''.join(parts)
Cat(parts) == IF parts = <<>> THEN "" ELSE Head(parts) \o Cat(Tail(parts))

RECURSIVE Join(_, _)
\* sep.join(parts)
Join(sep, parts) ==
    IF parts = <<>> THEN ""
    ELSE IF Len(parts) = 1 THEN parts[1]
    ELSE parts[1] \o sep \o Join(sep, Tail(parts))

----------------------------------------------------------------------------
(* dict: a sequence of items [k, v], keys unique, in insertion order *)

EmptyDict == <<>>
Keys(d) == [i \in 1..Len(d) |-> d[i].k]
KeySet(d) == {d[i].k : i \in 1..Len(d)}
Has(d, key) == key \in KeySet(d)
Get(d, key) == (CHOOSE i \in 1..Len(d) : d[i].k = key)
Lookup(d, key) == d[Get(d, key)].v
\* d.get(key, default)
GetOr(d, key, default) == IF Has(d, key) THEN Lookup(d, key) ELSE default
\* d[key] = value: an existing key keeps its place
Put(d, key, value) ==
    IF Has(d, key)
    THEN [d EXCEPT ![Get(d, key)] = [k |-> key, v |-> value]]
    ELSE Append(d, [k |-> key, v |-> value])
RECURSIVE Update(_, _)
\* d.update(other)
Update(d, other) ==
    IF other = <<>> THEN d
    ELSE Update(Put(d, Head(other).k, Head(other).v), Tail(other))

----------------------------------------------------------------------------
(* Ordering of field names: Python compares str by code point *)

KeyCodes(k) ==
    IF k = "OrderId" THEN <<79, 114, 100, 101, 114, 73, 100>> ELSE
    IF k = "CardId" THEN <<67, 97, 114, 100, 73, 100>> ELSE
    IF k = "Amount" THEN <<65, 109, 111, 117, 110, 116>> ELSE
    IF k = "ClientId" THEN <<67, 108, 105, 101, 110, 116, 73, 100>> ELSE
    IF k = "DATA" THEN <<68, 65, 84, 65>> ELSE
    IF k = "PaymentId" THEN <<80, 97, 121, 109, 101, 110, 116, 73, 100>> ELSE
    IF k = "CustomerKey" THEN <<67, 117, 115, 116, 111, 109, 101, 114, 75, 101, 121>> ELSE
    IF k = "Email" THEN <<69, 109, 97, 105, 108>> ELSE
    IF k = "Phone" THEN <<80, 104, 111, 110, 101>> ELSE
    IF k = "CheckType" THEN <<67, 104, 101, 99, 107, 84, 121, 112, 101>> ELSE
    IF k = "Description" THEN <<68, 101, 115, 99, 114, 105, 112, 116, 105, 111, 110>> ELSE
    IF k = "PayForm" THEN <<80, 97, 121, 70, 111, 114, 109>> ELSE
    IF k = "TerminalKey" THEN <<84, 101, 114, 109, 105, 110, 97, 108, 75, 101, 121>> ELSE
    IF k = "DigestValue" THEN <<68, 105, 103, 101, 115, 116, 86, 97, 108, 117, 101>> ELSE
    IF k = "SignatureValue"
    THEN <<83, 105, 103, 110, 97, 116, 117, 114, 101, 86, 97, 108, 117, 101>> ELSE
    IF k = "X509SerialNumber"
    THEN <<88, 53, 48, 57, 83, 101, 114, 105, 97, 108, 78, 117, 109, 98, 101, 114>>
    ELSE <<>>

RECURSIVE CodesLess(_, _)
\* a < b for two strings given by their code points
CodesLess(a, b) ==
    IF b = <<>> THEN FALSE
    ELSE IF a = <<>> THEN TRUE
    ELSE IF Head(a) # Head(b) THEN Head(a) < Head(b)
    ELSE CodesLess(Tail(a), Tail(b))

KeyLess(j, k) == CodesLess(KeyCodes(j), KeyCodes(k))

RECURSIVE Insert(_, _)
Insert(sortedKeys, key) ==
    IF sortedKeys = <<>> THEN <<key>>
    ELSE IF KeyLess(key, Head(sortedKeys)) THEN <<key>> \o sortedKeys
    ELSE <<Head(sortedKeys)>> \o Insert(Tail(sortedKeys), key)

RECURSIVE SortedFrom(_, _)
SortedFrom(acc, keys) ==
    IF keys = <<>> THEN acc ELSE SortedFrom(Insert(acc, Head(keys)), Tail(keys))

\* the mutant of Sorted: the keys as they were inserted
UnsortedKeys(keys) == keys

\* sorted(keys)
Sorted(keys) == SortedFrom(<<>>, keys)

----------------------------------------------------------------------------
(* Exceptions *)

NoExc == [kind |-> "none", message |-> "", code |-> None]
Raised(x) == x.kind # "none"
\* CryptoProError(message, code=-1)
CryptoProError(message, code) == [kind |-> "CryptoProError", message |-> message, code |-> I(code)]
\* TinkoffError(message, code='-1')
TinkoffError(message, code) == [kind |-> "TinkoffError", message |-> message, code |-> code]
\* requests.exceptions.HTTPError, raised by raise_for_status
HTTPError == [kind |-> "HTTPError", message |-> "", code |-> None]
\* requests.exceptions.ConnectionError: the transport could not reach the bank
ConnectionError == [kind |-> "ConnectionError", message |-> "", code |-> None]
OSError(what) == [kind |-> "OSError", message |-> what, code |-> None]
KeyError(key) == [kind |-> "KeyError", message |-> key, code |-> None]
TypeError(what) == [kind |-> "TypeError", message |-> what, code |-> None]

----------------------------------------------------------------------------
(* cryptopro.py: base64 *)

B64Alphabet ==
    <<"A","B","C","D","E","F","G","H","I","J","K","L","M","N","O","P",
      "Q","R","S","T","U","V","W","X","Y","Z","a","b","c","d","e","f",
      "g","h","i","j","k","l","m","n","o","p","q","r","s","t","u","v",
      "w","x","y","z","0","1","2","3","4","5","6","7","8","9","+","/">>
B64Char(i) == B64Alphabet[i + 1]

RECURSIVE B64Encode(_)
\* base64.b64encode(bytes).decode()
B64Encode(bytes) ==
    IF bytes = <<>> THEN ""
    ELSE IF Len(bytes) = 1 THEN
        B64Char(bytes[1] \div 4) \o B64Char((bytes[1] % 4) * 16) \o "=="
    ELSE IF Len(bytes) = 2 THEN
        B64Char(bytes[1] \div 4) \o B64Char((bytes[1] % 4) * 16 + bytes[2] \div 16)
            \o B64Char((bytes[2] % 16) * 4) \o "="
    ELSE
        B64Char(bytes[1] \div 4) \o B64Char((bytes[1] % 4) * 16 + bytes[2] \div 16)
            \o B64Char((bytes[2] % 16) * 4 + bytes[3] \div 64) \o B64Char(bytes[3] % 64)
            \o B64Encode(SubSeq(bytes, 4, Len(bytes)))

\* CryptoPro.to_base64, on the bytes hash and sign return
ToBase64(value) == B64Encode(value.v)

----------------------------------------------------------------------------
(* cryptopro.py: temporary files *)

EmptyFS == [p \in {} |-> None]
Exists(f, path) == path \in DOMAIN f
FsPut(f, path, content) ==
    [p \in DOMAIN f \cup {path} |-> IF p = path THEN content ELSE f[p]]
FsDel(f, path) == [p \in DOMAIN f \ {path} |-> f[p]]

\* The names tempfile.NamedTemporaryFile may hand out: one that no file has.
TempNames == {"/tmp/tmpa", "/tmp/tmpb", "/tmp/tmpc", "/tmp/tmpd"}
FreshNames(f) == TempNames \ DOMAIN f

\* CryptoPro._create_temp_file: the file `name` now holds the encoded content
CreateTempFile(f, name, content) == FsPut(f, name, Encode(content))

\* the mutant of FlushTempFile: the file is read and left in place
FlushKeepsFile(f, filename) ==
    IF ~Exists(f, filename)
    THEN [fs |-> f, ret |-> None, exc |-> OSError("FileNotFoundError")]
    ELSE [fs |-> f, ret |-> f[filename], exc |-> NoExc]

\* CryptoPro._flush_temp_file: read, remove, return the content
FlushTempFile(f, filename) ==
    IF ~Exists(f, filename)
    THEN [fs |-> f, ret |-> None, exc |-> OSError("FileNotFoundError")]
    ELSE [fs |-> FsDel(f, filename), ret |-> f[filename], exc |-> NoExc]

----------------------------------------------------------------------------
(* cryptopro.py: the error stream *)

\* A stream is a sequence of pieces: text without a line break, or a line break.
NL == "\n"

RECURSIVE SplitFrom(_, _)
SplitFrom(lines, stream) ==
    IF stream = <<>> THEN lines
    ELSE IF Head(stream) = NL THEN SplitFrom(Append(lines, ""), Tail(stream))
    ELSE SplitFrom([lines EXCEPT ![Len(lines)] = @ \o Head(stream)], Tail(stream))

\* CryptoPro._get_lines: output.decode().split('\n')
GetLines(output) == SplitFrom(<<"">>, output)

\* re.search(r'^Error\s+number\s+(0x[0-9a-f]+)\s+\((\d+)\)\.\s*$', line) and
\* int(match.group(2)), on the lines the model feeds it
ErrorNumberMatch(line) ==
    IF line = "Error number 0x7b (123)." THEN [ok |-> TRUE, n |-> 123]
    ELSE IF line = "Error number 0x5 (5)." THEN [ok |-> TRUE, n |-> 5]
    ELSE [ok |-> FALSE, n |-> 0]

RECURSIVE ScanErrorLines(_, _)
\* the loop of _get_error: [code, text] when it ends
ScanErrorLines(lines, code) ==
    IF lines = <<>> THEN [code |-> code, text |-> None]
    ELSE IF ErrorNumberMatch(Head(lines)).ok
         THEN ScanErrorLines(Tail(lines), I(ErrorNumberMatch(Head(lines)).n))
    ELSE IF code # None THEN [code |-> code, text |-> S(Head(lines))]
    ELSE ScanErrorLines(Tail(lines), code)

\* the mutant of GetError: the parsed code is dropped
GetErrorNoCode(result) == CryptoProError(Join("\n", GetLines(result.stderr)), -1)

\* CryptoPro._get_error
GetError(result) ==
    LET lines == GetLines(result.stderr)
        r == ScanErrorLines(lines, None)
    IN  IF r.code = None THEN CryptoProError(Join("\n", lines), -1)
        ELSE IF r.text = None
             THEN CryptoProError("Error " \o ToString(r.code.v), r.code.v)
        ELSE CryptoProError(r.text.v, r.code.v)

----------------------------------------------------------------------------
(* cryptopro.py: hash and sign *)

\* What the external executable did when run: `raises` when it could not be
\* started (subprocess.run raises OSError); otherwise its exit code, the bytes
\* it wrote to the output file (None: it wrote no file) and its error stream.
Proc(raises, returncode, out, stderr) ==
    [raises |-> raises, returncode |-> returncode, out |-> out, stderr |-> stderr]

\* get_hash / get_sign from the temporary file on: ext is '.hash' or '.sign'
Csptest(f, name, content, proc, ext) ==
    LET in_file_name == name
        out_file_name == name \o ext
        created == CreateTempFile(f, in_file_name, content)
    IN  IF proc.raises
        THEN [fs |-> created, ret |-> None, exc |-> OSError("subprocess.run")]
        ELSE
        LET ran == IF proc.out = None THEN created
                   ELSE FsPut(created, out_file_name, proc.out)
            flushedIn == FlushTempFile(ran, in_file_name)
        IN  IF Raised(flushedIn.exc) THEN flushedIn
            ELSE IF proc.returncode # 0
                 THEN [fs |-> flushedIn.fs, ret |-> None, exc |-> GetError(proc)]
            ELSE FlushTempFile(flushedIn.fs, out_file_name)

\* CryptoPro.get_hash
GetHash(f, name, content, proc) == Csptest(f, name, content, proc, ".hash")
\* CryptoPro.get_sign
GetSign(f, name, content, proc) == Csptest(f, name, content, proc, ".sign")

----------------------------------------------------------------------------
(* cryptopro.py: the certificate serial *)

\* A str the code takes apart is kept character by character.
X(chars) == [t |-> "chars", v |-> chars]

RECURSIVE Replace0x(_)
\* s.replace('0x', '')
Replace0x(chars) ==
    IF chars = <<>> THEN <<>>
    ELSE IF Len(chars) >= 2 /\ chars[1] = "0" /\ chars[2] = "x"
         THEN Replace0x(SubSeq(chars, 3, Len(chars)))
    ELSE <<chars[1]>> \o Replace0x(Tail(chars))

LowerChar(c) ==
    CASE c = "A" -> "a" [] c = "B" -> "b" [] c = "C" -> "c" [] c = "D" -> "d"
      [] c = "E" -> "e" [] c = "F" -> "f" [] c = "X" -> "x" [] OTHER -> c
\* s.lower()
Lower(chars) == [i \in 1..Len(chars) |-> LowerChar(chars[i])]

RECURSIVE FindContainer(_, _)
\* the first loop of get_certificate_serial: the id of the named container
FindContainer(containers, container_name) ==
    IF containers = <<>> THEN None
    ELSE IF Head(containers).name = container_name THEN S(Head(containers).id)
    ELSE FindContainer(Tail(containers), container_name)

RECURSIVE FindSerial(_, _)
\* the second loop: Container and Serial are read with item[...]
FindSerial(certificates, code) ==
    IF certificates = <<>> THEN [ret |-> None, exc |-> NoExc]
    ELSE IF ~Has(Head(certificates), "Container")
         THEN [ret |-> None, exc |-> KeyError("Container")]
    ELSE IF Lookup(Head(certificates), "Container") = code
         THEN IF ~Has(Head(certificates), "Serial")
              THEN [ret |-> None, exc |-> KeyError("Serial")]
              ELSE [ret |-> Lookup(Head(certificates), "Serial"), exc |-> NoExc]
    ELSE FindSerial(Tail(certificates), code)

\* CryptoPro.get_certificate_serial, on the lists get_containers and
\* get_certificates return; `listed` tells whether get_certificates was called
GetCertificateSerial(containers, certificates, container_name) ==
    LET code == FindContainer(containers, container_name)
        found == FindSerial(certificates, code)
    IN  IF code = None THEN [ret |-> None, exc |-> NoExc, listed |-> FALSE]
        ELSE IF Raised(found.exc) \/ found.ret = None
             THEN [ret |-> found.ret, exc |-> found.exc, listed |-> TRUE]
        ELSE [ret |-> S(Cat(Lower(Replace0x(found.ret.v)))), exc |-> NoExc,
              listed |-> TRUE]

----------------------------------------------------------------------------
(* tinkoff.py: configuration of the client under test *)

TerminalKey == S("test_key")
IsTest == FALSE
ContainerName == "\\\\.\\HDIMAGE\\xx"
BaseUrl == IF IsTest THEN "https://rest-api-test.tinkoff.ru/e2c/"
           ELSE "https://securepay.tinkoff.ru/e2c/"

SignatureFields == {"DigestValue", "SignatureValue", "X509SerialNumber"}

----------------------------------------------------------------------------
(* tinkoff.py: building the request of each operation *)

\* Python floats are IEEE 754 binary64. A float is m * 2^(-k) with the
\* significand m a natural number below 2^53, held as a sequence of limbs in
\* base 32768, the lowest limb first (no limb sequence ends in 0; <<>> is 0).

RECURSIVE BigNat(_)
\* the natural number i as limbs
BigNat(i) == IF i = 0 THEN <<>> ELSE <<i % 32768>> \o BigNat(i \div 32768)

RECURSIVE Small(_)
\* the value of limbs that hold a number small enough for an int of the model
Small(n) == IF n = <<>> THEN 0 ELSE Head(n) + 32768 * Small(Tail(n))

RECURSIVE MulSmall(_, _, _)
\* n * m + carry, for m up to 32768
MulSmall(n, m, carry) ==
    IF n = <<>> THEN BigNat(carry)
    ELSE <<(Head(n) * m + carry) % 32768>>
            \o MulSmall(Tail(n), m, (Head(n) * m + carry) \div 32768)

RECURSIVE DivSmall(_, _)
\* n divided by d, for d up to 32768: quotient q and remainder r
DivSmall(n, d) ==
    IF n = <<>> THEN [q |-> <<>>, r |-> 0]
    ELSE LET high == DivSmall(Tail(n), d)
             x == high.r * 32768 + Head(n)
         IN  [q |-> IF high.q = <<>> /\ x \div d = 0 THEN <<>>
                    ELSE <<x \div d>> \o high.q,
              r |-> x % d]

RECURSIVE BitLenSmall(_)
BitLenSmall(x) == IF x = 0 THEN 0 ELSE 1 + BitLenSmall(x \div 2)
\* the number of bits of n
BitLen(n) == IF n = <<>> THEN 0 ELSE 15 * (Len(n) - 1) + BitLenSmall(n[Len(n)])

RECURSIVE Shl(_, _)
\* n * 2^s
Shl(n, s) ==
    IF n = <<>> THEN n
    ELSE IF s >= 15 THEN <<0>> \o Shl(n, s - 15)
    ELSE MulSmall(n, 2 ^ s, 0)

RECURSIVE ShrSticky(_, _, _)
\* floor(n / 2^s), and whether a bit that was shifted out was set
ShrSticky(n, s, sticky) ==
    IF n = <<>> THEN [q |-> n, sticky |-> sticky]
    ELSE IF s >= 15 THEN ShrSticky(Tail(n), s - 15, sticky \/ Head(n) # 0)
    ELSE LET low == DivSmall(n, 2 ^ s)
         IN  [q |-> low.q, sticky |-> sticky \/ low.r # 0]

IsOdd(n) == n # <<>> /\ Head(n) % 2 = 1

RECURSIVE Add1(_)
Add1(n) ==
    IF n = <<>> THEN <<1>>
    ELSE IF Head(n) + 1 < 32768 THEN <<Head(n) + 1>> \o Tail(n)
    ELSE <<0>> \o Add1(Tail(n))

\* n / 2^s rounded to the nearest natural, a tie to the even one; inexact says
\* that bits were lost before the shift already
RoundShr(n, s, inexact) ==
    IF s <= 0 THEN n
    ELSE LET shifted == ShrSticky(n, s - 1, inexact)
             halved == DivSmall(shifted.q, 2)
         IN  IF halved.r = 1 /\ (shifted.sticky \/ IsOdd(halved.q))
             THEN Add1(halved.q) ELSE halved.q

\* n * 2^(-k) rounded to a float: 53 significant bits, round half to even
Round53(n, k, inexact) ==
    IF BitLen(n) <= 53 THEN [m |-> n, k |-> k]
    ELSE [m |-> RoundShr(n, BitLen(n) - 53, inexact), k |-> k - (BitLen(n) - 53)]

\* the float a decimal literal of c hundredths denotes (1.15 is Float(115)):
\* the float nearest to c / 100
Float(c) ==
    LET whole == DivSmall(Shl(BigNat(c), 70), 100)
    IN  [t |-> "float", v |-> Round53(whole.q, 70, whole.r # 0)]

\* float * int, for an int up to 32768 (it converts to a float exactly)
FloatTimes(f, i) == Round53(MulSmall(f.m, i, 0), f.k, FALSE)

\* int(float), for a float that is not negative: the fraction is dropped
FloatTrunc(f) ==
    IF f.k >= 0 THEN Small(ShrSticky(f.m, f.k, FALSE).q)
    ELSE Small(Shl(f.m, 0 - f.k))

\* Tinkoff._process_amount: int(value * 100)
ProcessAmount(value) ==
    IF value.t = "float" THEN I(FloatTrunc(FloatTimes(value.v, 100)))
    ELSE I(value.v * 100)

\* Tinkoff._join_data
JoinData(d) == Join("|", [i \in 1..Len(d) |-> d[i].k \o "=" \o Str(d[i].v)])

\* request[key] = value, when the optional input was given
\* the mutant of PutIfGiven: an empty value is left out as well
PutIfTruthy(request, key, value) ==
    IF Truthy(value) THEN Put(request, key, value) ELSE request

\* if value is not None: request[key] = value
PutIfGiven(request, key, value) ==
    IF value # None THEN Put(request, key, value) ELSE request

CreatePaymentRequest(a) ==
    LET request == <<[k |-> "OrderId", v |-> a.order_id],
                     [k |-> "CardId", v |-> a.card_id],
                     [k |-> "Amount", v |-> ProcessAmount(a.amount)]>>
        withClient == PutIfGiven(request, "ClientId", a.client_id)
    IN  IF a.data # None THEN Put(withClient, "DATA", S(JoinData(a.data.v)))
        ELSE withClient

PaymentIdRequest(a) == <<[k |-> "PaymentId", v |-> a.id]>>

CreateClientRequest(a) ==
    PutIfGiven(PutIfGiven(<<[k |-> "CustomerKey", v |-> a.id]>>, "Email", a.email),
               "Phone", a.phone)

CustomerKeyRequest(a) == <<[k |-> "CustomerKey", v |-> a.id]>>

CreateCardRequest(a) ==
    PutIfGiven(PutIfGiven(PutIfGiven(<<[k |-> "CustomerKey", v |-> a.client_id]>>,
                                     "CheckType", a.check_type),
                          "Description", a.comment),
               "PayForm", a.form_type)

DeleteCardRequest(a) ==
    <<[k |-> "CardId", v |-> a.id], [k |-> "CustomerKey", v |-> a.client_id]>>

GetCardsRequest(a) == <<[k |-> "CustomerKey", v |-> a.client_id]>>

\* the path each operation posts to
UrlOf(o) ==
    CASE o = "create_payment" -> "Init"
      [] o = "proceed_payment" -> "Payment"
      [] o = "get_payment" -> "GetState"
      [] o = "create_client" -> "AddCustomer"
      [] o = "delete_client" -> "RemoveCustomer"
      [] o = "get_client" -> "GetCustomer"
      [] o = "create_card" -> "AddCard"
      [] o = "delete_card" -> "RemoveCard"
      [] o = "get_cards" -> "GetCardList"

----------------------------------------------------------------------------
(* tinkoff.py: signing *)

\* the mutant of SignInput: the dict is signed before TerminalKey is added
SignInputNoTerminalKey(request) == request

\* _prepare_request: kwargs['data'] as it is handed to _get_sign
SignInput(request) == Put(request, "TerminalKey", TerminalKey)

\* _get_sign: ''.join([ str(data[x]) for x in sorted(data.keys()) ])
SignContent(d) ==
    LET ks == Sorted(Keys(d))
    IN  Cat([i \in 1..Len(ks) |-> Str(Lookup(d, ks[i]))])

\* the dict _get_sign returns
SignBundle(digest_b64, sign_b64, serial) ==
    <<[k |-> "DigestValue", v |-> S(digest_b64)],
      [k |-> "SignatureValue", v |-> S(sign_b64)],
      [k |-> "X509SerialNumber", v |-> serial]>>

\* the mutant of Reraise: the signer's error is wrapped in a gateway error
WrapAsTinkoffError(e) == TinkoffError(e.message, S(Str(e.code)))

\* _get_sign: except CryptoProError as e: ...; raise e
Reraise(e) == e

----------------------------------------------------------------------------
(* tinkoff.py: interpreting the response *)

\* the mutant of RaiseForStatus: only server errors (5xx) raise
RaiseForServerErrorOnly(status_code) == status_code >= 500

\* response.raise_for_status(), as the tests' transport stands in for it
RaiseForStatus(status_code) == status_code >= 400

\* the mutant of ErrorMessage: Message is put before Details
ErrorMessageSwapped(result) ==
    LET details == GetOr(result, "Details", None)
        message == GetOr(result, "Message", None)
    IN  Join(" ", (IF Truthy(message) THEN <<message.v>> ELSE <<>>)
                  \o (IF Truthy(details) THEN <<details.v>> ELSE <<>>))

\* ' '.join([ x for x in [ result.get('Details'), result.get('Message') ] if x ])
ErrorMessage(result) ==
    LET details == GetOr(result, "Details", None)
        message == GetOr(result, "Message", None)
    IN  Join(" ", (IF Truthy(details) THEN <<details.v>> ELSE <<>>)
                  \o (IF Truthy(message) THEN <<message.v>> ELSE <<>>))

\* the mutant of PrepareResponse: the redirect's Location is read before the
\* success flag is looked at
PrepareResponseLocationFirst(resp) ==
    LET result == resp.json
        wrapped == IF result.t = "list"
                   THEN D(<<[k |-> "items", v |-> result]>>) ELSE result
        redirect == 300 <= resp.status_code /\ resp.status_code <= 399
    IN  IF redirect /\ ~Has(resp.headers, "Location")
        THEN [ret |-> None, exc |-> KeyError("Location")]
        ELSE IF result.t = "dict" /\ ~Has(result.v, "Success")
        THEN [ret |-> None, exc |-> KeyError("Success")]
        ELSE IF result.t = "dict" /\ ~Truthy(Lookup(result.v, "Success"))
        THEN [ret |-> None,
              exc |-> TinkoffError(ErrorMessage(result.v),
                                   GetOr(result.v, "ErrorCode", S("-1")))]
        ELSE IF redirect
        THEN IF wrapped.t # "dict"
             THEN [ret |-> None, exc |-> TypeError("item assignment")]
             ELSE [ret |-> D(Put(wrapped.v, "URL", Lookup(resp.headers, "Location"))),
                   exc |-> NoExc]
        ELSE [ret |-> wrapped, exc |-> NoExc]

\* Tinkoff._prepare_response: [ret, exc]
PrepareResponse(resp) ==
    LET result == resp.json
        wrapped == IF result.t = "list"
                   THEN D(<<[k |-> "items", v |-> result]>>) ELSE result
    IN  IF result.t = "dict" /\ ~Has(result.v, "Success")
        THEN [ret |-> None, exc |-> KeyError("Success")]
        ELSE IF result.t = "dict" /\ ~Truthy(Lookup(result.v, "Success"))
        THEN [ret |-> None,
              exc |-> TinkoffError(ErrorMessage(result.v),
                                   GetOr(result.v, "ErrorCode", S("-1")))]
        ELSE IF 300 <= resp.status_code /\ resp.status_code <= 399
        THEN IF ~Has(resp.headers, "Location")
             THEN [ret |-> None, exc |-> KeyError("Location")]
             ELSE IF wrapped.t # "dict"
             THEN [ret |-> None, exc |-> TypeError("item assignment")]
             ELSE [ret |-> D(Put(wrapped.v, "URL", Lookup(resp.headers, "Location"))),
                   exc |-> NoExc]
        ELSE [ret |-> wrapped, exc |-> NoExc]

\* the mutant of CheckResponse: the status is not checked before the body is read
CheckResponseNoStatus(resp) == PrepareResponse(resp)

\* _request after the transport returned: raise_for_status, then _prepare_response
CheckResponse(resp) ==
    IF RaiseForStatus(resp.status_code) THEN [ret |-> None, exc |-> HTTPError]
    ELSE PrepareResponse(resp)

----------------------------------------------------------------------------
(* tinkoff.py: the result of each operation *)

\* PAYMENT_STATUS_MAPPING
PAYMENT_STATUS_MAPPING ==
    <<[k |-> "NEW", v |-> S("Payment registered, processing not started")],
      [k |-> "CHECKING", v |-> S("Payment data is being checked")],
      [k |-> "CHECKED", v |-> S("Data checked")],
      [k |-> "COMPLETING", v |-> S("Crediting of funds started")],
      [k |-> "COMPLETED", v |-> S("Funds credited to the recipient's card")],
      [k |-> "REJECTED", v |-> S("Payment rejected by the bank")],
      [k |-> "PROCESSING", v |-> S("Being processed")],
      [k |-> "UNKNOWN", v |-> S("Status not determined")]>>

\* the mutant of PaymentStatusName: a status the table lacks names itself
PaymentStatusNameOrStatus(status) ==
    IF status.t = "str" /\ Has(PAYMENT_STATUS_MAPPING, status.v)
    THEN Lookup(PAYMENT_STATUS_MAPPING, status.v)
    ELSE status

\* PAYMENT_STATUS_MAPPING.get(status): the descriptions are rendered in English
PaymentStatusName(status) ==
    IF status.t # "str" THEN None
    ELSE CASE status.v = "NEW" -> S("Payment registered, processing not started")
           [] status.v = "CHECKING" -> S("Payment data is being checked")
           [] status.v = "CHECKED" -> S("Data checked")
           [] status.v = "COMPLETING" -> S("Crediting of funds started")
           [] status.v = "COMPLETED" -> S("Funds credited to the recipient's card")
           [] status.v = "REJECTED" -> S("Payment rejected by the bank")
           [] status.v = "PROCESSING" -> S("Being processed")
           [] status.v = "UNKNOWN" -> S("Status not determined")
           [] OTHER -> None

\* CARD_STATUS_MAPPING.get(status)
CardStatusName(status) ==
    IF status.t # "str" THEN None
    ELSE CASE status.v = "A" -> S("Active")
           [] status.v = "I" -> S("Inactive")
           [] status.v = "E" -> S("Expired")
           [] status.v = "D" -> S("Deleted")
           [] OTHER -> None

\* CARD_TYPE_MAPPING.get(type)
CardTypeName(type) ==
    IF type.t # "int" THEN None
    ELSE CASE type.v = 0 -> S("Debit card")
           [] type.v = 1 -> S("Credit card")
           [] type.v = 2 -> S("Debit and credit card")
           [] OTHER -> None

\* response[key] for each key in turn: the exception of the first that fails
Subscript(r, keys) ==
    IF r.t # "dict" THEN TypeError("not subscriptable")
    ELSE IF \E i \in 1..Len(keys) : ~Has(r.v, keys[i])
         THEN KeyError(keys[CHOOSE i \in 1..Len(keys) :
                            /\ ~Has(r.v, keys[i])
                            /\ \A j \in 1..(i - 1) : Has(r.v, keys[j])])
    ELSE NoExc

\* the mutant of WithUrl: the redirect's URL is not looked at
WithPaymentUrlOnly(result, r) ==
    IF Has(r.v, "PaymentURL") THEN Put(result, "url", Lookup(r.v, "PaymentURL"))
    ELSE result

\* result['url'] from PaymentURL, or else from URL
WithUrl(result, r) ==
    IF Has(r.v, "PaymentURL") THEN Put(result, "url", Lookup(r.v, "PaymentURL"))
    ELSE IF Has(r.v, "URL") THEN Put(result, "url", Lookup(r.v, "URL"))
    ELSE result

\* proceed_payment, get_payment: the dict returned
PaymentResult(r) ==
    IF Raised(Subscript(r, <<"PaymentId", "Status">>))
    THEN [ret |-> None, exc |-> Subscript(r, <<"PaymentId", "Status">>)]
    ELSE [ret |-> D(<<[k |-> "id", v |-> Lookup(r.v, "PaymentId")],
                      [k |-> "status", v |-> Lookup(r.v, "Status")],
                      [k |-> "status_name",
                       v |-> PaymentStatusName(Lookup(r.v, "Status"))]>>),
          exc |-> NoExc]

\* create_payment: the dict returned
CreatePaymentResult(r) ==
    IF Raised(PaymentResult(r).exc) THEN PaymentResult(r)
    ELSE [ret |-> D(WithUrl(PaymentResult(r).ret.v, r)), exc |-> NoExc]

\* create_client, delete_client: the dict returned
ClientResult(r) ==
    IF Raised(Subscript(r, <<"CustomerKey">>))
    THEN [ret |-> None, exc |-> Subscript(r, <<"CustomerKey">>)]
    ELSE [ret |-> D(<<[k |-> "id", v |-> Lookup(r.v, "CustomerKey")]>>), exc |-> NoExc]

\* get_client: the dict returned
GetClientResult(r) ==
    IF Raised(ClientResult(r).exc) THEN ClientResult(r)
    ELSE LET withEmail == IF Has(r.v, "Email")
                          THEN Put(ClientResult(r).ret.v, "email", Lookup(r.v, "Email"))
                          ELSE ClientResult(r).ret.v
         IN  [ret |-> D(IF Has(r.v, "Phone")
                        THEN Put(withEmail, "phone", Lookup(r.v, "Phone"))
                        ELSE withEmail),
              exc |-> NoExc]

\* create_card: the dict returned
CreateCardResult(r) ==
    IF Raised(Subscript(r, <<"RequestKey">>))
    THEN [ret |-> None, exc |-> Subscript(r, <<"RequestKey">>)]
    ELSE [ret |-> D(WithUrl(<<[k |-> "request_id", v |-> Lookup(r.v, "RequestKey")]>>, r)),
          exc |-> NoExc]

\* delete_card: the dict returned
DeleteCardResult(r) ==
    IF Raised(Subscript(r, <<"CardId", "Status">>))
    THEN [ret |-> None, exc |-> Subscript(r, <<"CardId", "Status">>)]
    ELSE [ret |-> D(<<[k |-> "id", v |-> Lookup(r.v, "CardId")],
                      [k |-> "status", v |-> Lookup(r.v, "Status")],
                      [k |-> "status_name",
                       v |-> CardStatusName(Lookup(r.v, "Status"))]>>),
          exc |-> NoExc]

\* the mutant of CardRecord: the record's id is taken from Pan
CardRecordIdFromPan(x) ==
    D(<<[k |-> "id", v |-> Lookup(x.v, "Pan")],
        [k |-> "type", v |-> Lookup(x.v, "CardType")],
        [k |-> "type_name", v |-> CardTypeName(Lookup(x.v, "CardType"))],
        [k |-> "pan", v |-> Lookup(x.v, "Pan")],
        [k |-> "status", v |-> Lookup(x.v, "Status")],
        [k |-> "status_name", v |-> CardStatusName(Lookup(x.v, "Status"))],
        [k |-> "rebill_id", v |-> GetOr(x.v, "RebillID", None)],
        [k |-> "expires", v |-> GetOr(x.v, "ExpDate", None)],
        [k |-> "is_active", v |-> B(Lookup(x.v, "Status") = S("A"))]>>)

\* get_cards: one element of the list returned
CardRecord(x) ==
    D(<<[k |-> "id", v |-> Lookup(x.v, "CardId")],
        [k |-> "type", v |-> Lookup(x.v, "CardType")],
        [k |-> "type_name", v |-> CardTypeName(Lookup(x.v, "CardType"))],
        [k |-> "pan", v |-> Lookup(x.v, "Pan")],
        [k |-> "status", v |-> Lookup(x.v, "Status")],
        [k |-> "status_name", v |-> CardStatusName(Lookup(x.v, "Status"))],
        [k |-> "rebill_id", v |-> GetOr(x.v, "RebillID", None)],
        [k |-> "expires", v |-> GetOr(x.v, "ExpDate", None)],
        [k |-> "is_active", v |-> B(Lookup(x.v, "Status") = S("A"))]>>)

\* get_cards: the list returned
GetCardsResult(r) ==
    IF Raised(Subscript(r, <<"items">>))
    THEN [ret |-> None, exc |-> Subscript(r, <<"items">>)]
    ELSE LET items == Lookup(r.v, "items").v
             CardKeys == <<"CardId", "CardType", "Pan", "Status">>
             bad == {i \in 1..Len(items) : Raised(Subscript(items[i], CardKeys))}
         IN  IF bad # {}
             THEN [ret |-> None,
                   exc |-> Subscript(items[CHOOSE i \in bad : \A j \in bad : i <= j],
                                     CardKeys)]
             ELSE [ret |-> L([i \in 1..Len(items) |-> CardRecord(items[i])]),
                   exc |-> NoExc]

\* what each operation makes of the normalized response
ExtractResult(o, r) ==
    CASE o = "create_payment" -> CreatePaymentResult(r)
      [] o \in {"proceed_payment", "get_payment"} -> PaymentResult(r)
      [] o \in {"create_client", "delete_client"} -> ClientResult(r)
      [] o = "get_client" -> GetClientResult(r)
      [] o = "create_card" -> CreateCardResult(r)
      [] o = "delete_card" -> DeleteCardResult(r)
      [] o = "get_cards" -> GetCardsResult(r)

----------------------------------------------------------------------------
(* The environment of the gateway: callers' inputs, the signer executable,
   the certificate store and the bank's replies *)

Item(key, value) == [k |-> key, v |-> value]

\* amounts written with two decimal places, in hundredths: 1.15 and 1.5
AmountCents == {115, 150}
CreatePaymentArgs ==
    [order_id : {S("1")}, card_id : {I(1)}, amount : {I(1), I(15)} \cup {Float(c) : c \in AmountCents},
     client_id : {None, S("c1")},
     data : {None, D(<<>>), D(<<Item("k", S("v")), Item("n", I(2))>>)}]
IdArgs == [id : {S("1")}]
CreateClientArgs == [id : {S("c1")}, email : {None, S("a@b.ru")}, phone : {None, S("+7")}]
CreateCardArgs ==
    [client_id : {S("c1")}, check_type : {None, S("3DS")}, comment : {None, S(""), S("my card")},
     form_type : {None, S("web")}]
DeleteCardArgs == [id : {I(1)}, client_id : {S("c1")}]
ClientIdArgs == [client_id : {S("c1")}]

ErrorStream == <<"An error occurred in running the program.", NL,
                 "Error number 0x7b (123).", NL, "Some error", NL>>

\* what the signer executable may do during a gateway operation
GwProcs ==
    {Proc(FALSE, 0, Y(<<1, 2, 3>>), <<>>), Proc(FALSE, 0, Y(<<255>>), <<>>),
     Proc(FALSE, 0, None, <<>>), Proc(FALSE, 1, None, ErrorStream),
     Proc(FALSE, 2, None, <<"failed">>), Proc(TRUE, 0, None, <<>>)}

Container(id, name) == [id |-> id, name |-> name]
Certificate(serial, container) ==
    <<Item("Serial", X(serial)), Item("Container", S(container))>>
SerialA == <<"0", "x", "0", "A", "1", "b">>
SerialB == <<"1", "0", "x", "F">>

\* the containers and certificates installed, as get_containers and
\* get_certificates list them
GwStores ==
    {[containers |-> <<Container("c2", "other"), Container("c1", ContainerName)>>,
      certificates |-> <<Certificate(SerialB, "c2"), Certificate(SerialA, "c1")>>],
     [containers |-> <<Container("c2", "other")>>,
      certificates |-> <<Certificate(SerialB, "c2")>>],
     [containers |-> <<Container("c1", ContainerName)>>,
      certificates |-> <<Certificate(SerialB, "c2")>>],
     [containers |-> <<Container("c1", ContainerName)>>,
      certificates |-> <<<<Item("Serial", X(SerialB))>>, Certificate(SerialA, "c1")>>]}

Statuses == {200, 302, 404, 500}
Location == <<Item("Location", S("https://bank/form"))>>
Response(status_code, json, headers) ==
    [status_code |-> status_code, json |-> json, headers |-> headers]
NoResponse == Response(0, None, <<>>)

FailHead == <<Item("Success", B(FALSE)), Item("ErrorCode", S("1"))>>
FailureBodies ==
    {D(FailHead),
     D(FailHead \o <<Item("Message", S("Some error"))>>),
     D(FailHead \o <<Item("Details", S("There is an error here"))>>),
     D(FailHead \o <<Item("Message", S("Some error")),
                     Item("Details", S("There is an error here"))>>),
     D(FailHead \o <<Item("Message", S("Some error")), Item("Details", S(""))>>),
     D(FailHead \o <<Item("Message", S("Some error")), Item("Details", None)>>),
     D(<<Item("Success", B(FALSE)), Item("Message", S("Some error")),
         Item("Details", S("There is an error here"))>>)}

\* the statuses the bank may report for a payment: the eight of
\* PAYMENT_STATUS_MAPPING, one the table does not hold, and a null
PaymentStatuses ==
    {S(Keys(PAYMENT_STATUS_MAPPING)[i]) : i \in 1..Len(PAYMENT_STATUS_MAPPING)}
        \cup {S("AUTHORIZED"), None}

OkHead == <<Item("Success", B(TRUE)), Item("ErrorCode", S("0"))>>
Card(id, pan, status) ==
    D(<<Item("CardId", I(id)), Item("Pan", S(pan)), Item("Status", S(status)),
        Item("CardType", I(1))>>)
SuccessBodies(o) ==
    CASE o = "create_payment" ->
           {D(OkHead \o <<Item("PaymentId", S("1")), Item("Status", s)>>) :
                s \in PaymentStatuses}
            \cup
           {D(OkHead \o <<Item("PaymentId", S("1")), Item("Status", S("NEW")),
                          Item("PaymentURL", S("https://bank/pay"))>>)}
      [] o \in {"proceed_payment", "get_payment"} ->
           {D(OkHead \o <<Item("PaymentId", S("1")), Item("Status", s)>>) :
                s \in PaymentStatuses}
      [] o \in {"create_client", "delete_client"} ->
           {D(OkHead \o <<Item("CustomerKey", S("c1"))>>)}
      [] o = "get_client" ->
           {D(OkHead \o <<Item("CustomerKey", S("c1"))>>),
            D(OkHead \o <<Item("CustomerKey", S("c1")), Item("Email", S("a@b.ru")),
                          Item("Phone", S("+7"))>>)}
      [] o = "create_card" ->
           {D(OkHead \o <<Item("RequestKey", S("r1"))>>),
            D(OkHead \o <<Item("RequestKey", S("r1")),
                          Item("PaymentURL", S("https://bank/pay"))>>)}
      [] o = "delete_card" ->
           {D(OkHead \o <<Item("CardId", I(1)), Item("Status", S("D"))>>)}
      [] o = "get_cards" ->
           {L(<<Card(1, "1111", "A"), Card(2, "2222", "I")>>), L(<<>>)}

\* the JSON bodies the bank may answer an operation with
Bodies(o) == SuccessBodies(o) \cup FailureBodies \cup {D(<<>>), None}

\* the replies the transport may return; Location comes with a redirect
Responses(o) ==
    {Response(st, b, h) : st \in Statuses, b \in Bodies(o), h \in {<<>>, Location}}
        \ {r \in {Response(st, b, Location) : st \in Statuses, b \in Bodies(o)} :
              r.status_code # 302}

----------------------------------------------------------------------------
(* The gateway client: one operation at a time *)

NoCall == [kind |-> "none", ret |-> None, exc |-> NoExc]
NoOutcome == [ret |-> None, exc |-> NoExc]
NoSigned == [data |-> <<>>, content |-> "", digest |-> None, digest_b64 |-> "",
             sign |-> None, sign_b64 |-> "", serial |-> None]

Init ==
    /\ pc = "Idle" /\ op = "none" /\ args = None
    /\ data = <<>> /\ signed = NoSigned /\ sent = <<>>
    /\ response = NoResponse /\ outcome = NoOutcome
    /\ log = <<>> /\ cpInits = 0 /\ nOps = 0
    /\ fs = EmptyFS /\ call = NoCall /\ nCalls = 0

\* the mutant of Begin: the request dict of the previous call is used again
BeginOnPreviousData(o, a, request) ==
    /\ pc \in {"Idle", "Success", "Failed"}
    /\ nOps < MaxOps
    /\ nOps' = nOps + 1
    /\ op' = o /\ args' = a
    /\ data' = Update(data, SignInput(request))
    /\ signed' = [NoSigned EXCEPT !.data = Update(data, SignInput(request)),
                                  !.content = SignContent(Update(data, SignInput(request)))]
    /\ sent' = <<>> /\ response' = NoResponse /\ outcome' = NoOutcome
    /\ log' = <<>> /\ call' = NoCall
    /\ pc' = "Hash"
    /\ UNCHANGED <<cpInits, fs, nCalls>>

\* The caller calls an operation: the request dict is built and _request,
\* _prepare_request and _get_sign run up to the first use of the signer.
Begin(o, a, request) ==
    /\ pc \in {"Idle", "Success", "Failed"}
    /\ nOps < MaxOps
    /\ nOps' = nOps + 1
    /\ op' = o /\ args' = a
    /\ data' = SignInput(request)
    /\ signed' = [NoSigned EXCEPT !.data = SignInput(request),
                                  !.content = SignContent(SignInput(request))]
    /\ sent' = <<>> /\ response' = NoResponse /\ outcome' = NoOutcome
    /\ log' = <<>> /\ call' = NoCall
    /\ pc' = "Hash"
    /\ UNCHANGED <<cpInits, fs, nCalls>>

CreatePayment == \E a \in CreatePaymentArgs : Begin("create_payment", a, CreatePaymentRequest(a))
ProceedPayment == \E a \in IdArgs : Begin("proceed_payment", a, PaymentIdRequest(a))
GetPayment == \E a \in IdArgs : Begin("get_payment", a, PaymentIdRequest(a))
CreateClient == \E a \in CreateClientArgs : Begin("create_client", a, CreateClientRequest(a))
DeleteClient == \E a \in IdArgs : Begin("delete_client", a, CustomerKeyRequest(a))
GetClient == \E a \in IdArgs : Begin("get_client", a, CustomerKeyRequest(a))
CreateCard == \E a \in CreateCardArgs : Begin("create_card", a, CreateCardRequest(a))
DeleteCard == \E a \in DeleteCardArgs : Begin("delete_card", a, DeleteCardRequest(a))
GetCards == \E a \in ClientIdArgs : Begin("get_cards", a, GetCardsRequest(a))

\* the operation ends with an exception raised to its caller
Fail(e) == pc' = "Failed" /\ outcome' = [ret |-> None, exc |-> e]

\* what _get_sign raises when a signer call raised e
SignerFailure(e) == IF e.kind = "CryptoProError" THEN Reraise(e) ELSE e

\* the mutant of Cp: every use of the property constructs a signer
CpConstructedAnew(inits) == inits + 1

\* Tinkoff.cp: the CryptoPro instance is constructed when the client has none;
\* the value is the number of instances constructed so far
Cp(inits) == IF inits = 0 THEN 1 ELSE inits

\* _get_sign: digest = self.cp.get_hash(content); digest_b64 = to_base64(digest)
Hash ==
    /\ pc = "Hash"
    /\ \E proc \in GwProcs, name \in FreshNames(EmptyFS) :
        LET r == GetHash(EmptyFS, name, S(signed.content), proc)
        IN  /\ call' = [kind |-> "hash", ret |-> r.ret, exc |-> r.exc,
                         input |-> CreateTempFile(EmptyFS, name, S(signed.content))[name]]
            /\ IF Raised(r.exc)
               THEN Fail(SignerFailure(r.exc)) /\ UNCHANGED signed
               ELSE /\ pc' = "Sign"
                    /\ signed' = [signed EXCEPT !.digest = r.ret,
                                                !.digest_b64 = ToBase64(r.ret)]
                    /\ UNCHANGED outcome
    /\ log' = Append(log, "csptest -hash")
    /\ cpInits' = Cp(cpInits)
    /\ UNCHANGED <<op, args, data, sent, response, nOps, fs, nCalls>>

\* the mutant of Sign: the canonical content is signed, not its digest
SignOfContent ==
    /\ pc = "Sign"
    /\ \E proc \in GwProcs, name \in FreshNames(EmptyFS) :
        LET r == GetSign(EmptyFS, name, S(signed.content), proc)
        IN  /\ call' = [kind |-> "sign", ret |-> r.ret, exc |-> r.exc,
                         input |-> CreateTempFile(EmptyFS, name, S(signed.content))[name]]
            /\ IF Raised(r.exc)
               THEN Fail(SignerFailure(r.exc)) /\ UNCHANGED signed
               ELSE /\ pc' = "Serial"
                    /\ signed' = [signed EXCEPT !.sign = r.ret,
                                                !.sign_b64 = ToBase64(r.ret)]
                    /\ UNCHANGED outcome
    /\ log' = Append(log, "csptest -sign")
    /\ cpInits' = Cp(cpInits)
    /\ UNCHANGED <<op, args, data, sent, response, nOps, fs, nCalls>>

\* _get_sign: sign = self.cp.get_sign(digest); sign_b64 = to_base64(sign)
Sign ==
    /\ pc = "Sign"
    /\ \E proc \in GwProcs, name \in FreshNames(EmptyFS) :
        LET r == GetSign(EmptyFS, name, signed.digest, proc)
        IN  /\ call' = [kind |-> "sign", ret |-> r.ret, exc |-> r.exc,
                         input |-> CreateTempFile(EmptyFS, name, signed.digest)[name]]
            /\ IF Raised(r.exc)
               THEN Fail(SignerFailure(r.exc)) /\ UNCHANGED signed
               ELSE /\ pc' = "Serial"
                    /\ signed' = [signed EXCEPT !.sign = r.ret,
                                                !.sign_b64 = ToBase64(r.ret)]
                    /\ UNCHANGED outcome
    /\ log' = Append(log, "csptest -sign")
    /\ cpInits' = Cp(cpInits)
    /\ UNCHANGED <<op, args, data, sent, response, nOps, fs, nCalls>>

\* the mutant of Serial: the container list is asked for twice
SerialLookedUpTwice ==
    /\ pc = "Serial"
    /\ \E store \in GwStores :
        LET r == GetCertificateSerial(store.containers, store.certificates, ContainerName)
        IN  /\ call' = [kind |-> "serial", ret |-> r.ret, exc |-> r.exc]
            /\ log' = log \o <<"csptest -enum_cont", "csptest -enum_cont">>
                          \o (IF r.listed THEN <<"certmgr -list">> ELSE <<>>)
            /\ IF Raised(r.exc)
               THEN Fail(SignerFailure(r.exc)) /\ UNCHANGED <<signed, data>>
               ELSE /\ pc' = "Sending"
                    /\ signed' = [signed EXCEPT !.serial = r.ret]
                    /\ data' = Update(data, SignBundle(signed.digest_b64,
                                                       signed.sign_b64, r.ret))
                    /\ UNCHANGED outcome
    /\ cpInits' = Cp(cpInits)
    /\ UNCHANGED <<op, args, sent, response, nOps, fs, nCalls>>

\* the mutant of Serial: a failed lookup does not stop the request
SerialThenSendAnyway ==
    /\ pc = "Serial"
    /\ \E store \in GwStores :
        LET r == GetCertificateSerial(store.containers, store.certificates, ContainerName)
        IN  /\ call' = [kind |-> "serial", ret |-> r.ret, exc |-> r.exc]
            /\ log' = log \o <<"csptest -enum_cont">>
                          \o (IF r.listed THEN <<"certmgr -list">> ELSE <<>>)
            /\ pc' = "Sending"
            /\ signed' = [signed EXCEPT !.serial = r.ret]
            /\ data' = Update(data, SignBundle(signed.digest_b64,
                                               signed.sign_b64, r.ret))
            /\ UNCHANGED outcome
    /\ cpInits' = Cp(cpInits)
    /\ UNCHANGED <<op, args, sent, response, nOps, fs, nCalls>>

\* _get_sign: serial = self.cp.get_certificate_serial(); then _prepare_request
\* merges the bundle into kwargs['data'] and sets the header and the URL
Serial ==
    /\ pc = "Serial"
    /\ \E store \in GwStores :
        LET r == GetCertificateSerial(store.containers, store.certificates, ContainerName)
        IN  /\ call' = [kind |-> "serial", ret |-> r.ret, exc |-> r.exc]
            /\ log' = log \o <<"csptest -enum_cont">>
                          \o (IF r.listed THEN <<"certmgr -list">> ELSE <<>>)
            /\ IF Raised(r.exc)
               THEN Fail(SignerFailure(r.exc)) /\ UNCHANGED <<signed, data>>
               ELSE /\ pc' = "Sending"
                    /\ signed' = [signed EXCEPT !.serial = r.ret]
                    /\ data' = Update(data, SignBundle(signed.digest_b64,
                                                       signed.sign_b64, r.ret))
                    /\ UNCHANGED outcome
    /\ cpInits' = Cp(cpInits)
    /\ UNCHANGED <<op, args, sent, response, nOps, fs, nCalls>>

\* the request _proceed_request hands to requests.request
Request(o, d) ==
    [method |-> "POST", url |-> BaseUrl \o UrlOf(o), data |-> d,
     headers |-> <<Item("Content-Type", S("application/x-www-form-urlencoded"))>>,
     allow_redirects |-> o # "create_card"]

\* the mutant of Send: a send that raised is tried once more before failing
SendAgainOnError ==
    /\ pc = "Sending"
    /\ log' = Append(log, "send")
    /\ \/ /\ Fail(ConnectionError)
          /\ sent' = sent \o <<Request(op, data), Request(op, data)>>
          /\ UNCHANGED response
       \/ \E resp \in Responses(op) :
            /\ sent' = Append(sent, Request(op, data))
            /\ response' = resp /\ pc' = "Interpreting" /\ UNCHANGED outcome
    /\ UNCHANGED <<op, args, data, signed, cpInits, nOps, fs, call, nCalls>>

\* _request: response = self._proceed_request(method, url, **params)
Send ==
    /\ pc = "Sending"
    /\ sent' = Append(sent, Request(op, data))
    /\ log' = Append(log, "send")
    /\ \/ Fail(ConnectionError) /\ UNCHANGED response
       \/ \E resp \in Responses(op) :
            response' = resp /\ pc' = "Interpreting" /\ UNCHANGED outcome
    /\ UNCHANGED <<op, args, data, signed, cpInits, nOps, fs, call, nCalls>>

\* _request: raise_for_status and _prepare_response; then the operation
\* builds its result from the normalized response
Interpret ==
    /\ pc = "Interpreting"
    /\ LET checked == CheckResponse(response)
       IN  IF Raised(checked.exc) THEN Fail(checked.exc)
           ELSE IF Raised(ExtractResult(op, checked.ret).exc)
                THEN Fail(ExtractResult(op, checked.ret).exc)
           ELSE pc' = "Success" /\ outcome' = ExtractResult(op, checked.ret)
    /\ UNCHANGED <<op, args, data, signed, sent, response, log, cpInits, nOps,
                   fs, call, nCalls>>

Next ==
    \/ CreatePayment \/ ProceedPayment \/ GetPayment
    \/ CreateClient \/ DeleteClient \/ GetClient
    \/ CreateCard \/ DeleteCard \/ GetCards
    \/ Hash \/ Sign \/ Serial \/ Send \/ Interpret

Spec == Init /\ [][Next]_vars

----------------------------------------------------------------------------
(* The signer adapter on its own: hash and sign calls, one after another *)

SeqsUpTo(set, n) == UNION {[1..m -> set] : m \in 0..n}

Contents == {S("test source"), Y(<<1, 2, 3>>)}
Outputs == {None, Y(<<1, 2, 3>>), Y(<<255>>)}

\* what the signer executable may do when hash or sign runs it
Procs ==
    {Proc(FALSE, 0, out, <<>>) : out \in Outputs}
        \cup {Proc(FALSE, 1, out, stderr) : out \in Outputs,
                                            stderr \in {<<"failed">>, ErrorStream}}
        \cup {Proc(TRUE, 0, None, <<>>)}

Called(kind, name, content, proc, r) ==
    [kind |-> kind, name |-> name, content |-> content, proc |-> proc,
     ret |-> r.ret, exc |-> r.exc]

\* a caller runs get_hash to its end
HashCall ==
    /\ call.kind \in {"none", "hash", "sign"}
    /\ nCalls < MaxCalls
    /\ \E name \in FreshNames(fs), content \in Contents, proc \in Procs :
        /\ fs' = GetHash(fs, name, content, proc).fs
        /\ call' = Called("hash", name, content, proc, GetHash(fs, name, content, proc))
    /\ nCalls' = nCalls + 1
    /\ UNCHANGED gwVars

\* a caller runs get_sign to its end
SignCall ==
    /\ call.kind \in {"none", "hash", "sign"}
    /\ nCalls < MaxCalls
    /\ \E name \in FreshNames(fs), content \in Contents, proc \in Procs :
        /\ fs' = GetSign(fs, name, content, proc).fs
        /\ call' = Called("sign", name, content, proc, GetSign(fs, name, content, proc))
    /\ nCalls' = nCalls + 1
    /\ UNCHANGED gwVars

NextSigner == HashCall \/ SignCall

SpecSigner == Init /\ [][NextSigner]_vars

----------------------------------------------------------------------------
(* The signer adapter when the executable fails: any error stream *)

Pieces == {"Error number 0x7b (123).", "Error number 0x5 (5).",
           "Error number 0x7B (123).", "Some error", NL}
\* streams in which text pieces are separated by line breaks
Streams ==
    {st \in SeqsUpTo(Pieces, MaxStream) :
        \A i \in 1..(Len(st) - 1) : st[i] = NL \/ st[i + 1] = NL}

InitErr ==
    /\ pc = "Idle" /\ op = "none" /\ args = None
    /\ data = <<>> /\ signed = NoSigned /\ sent = <<>>
    /\ response = NoResponse /\ outcome = NoOutcome
    /\ log = <<>> /\ cpInits = 0 /\ nOps = 0
    /\ fs = EmptyFS /\ nCalls = 0
    /\ \E stderr \in Streams, returncode \in {1, 255}, out \in {None, Y(<<255>>)} :
        call = [kind |-> "failing", proc |-> Proc(FALSE, returncode, out, stderr)]

\* get_hash, run with an executable that exits non-zero
HashFails ==
    /\ call.kind = "failing"
    /\ \E name \in FreshNames(fs) :
        /\ fs' = GetHash(fs, name, S("test source"), call.proc).fs
        /\ call' = Called("hash", name, S("test source"), call.proc,
                          GetHash(fs, name, S("test source"), call.proc))
    /\ nCalls' = nCalls + 1
    /\ UNCHANGED gwVars

\* get_sign, run with an executable that exits non-zero
SignFails ==
    /\ call.kind = "failing"
    /\ \E name \in FreshNames(fs) :
        /\ fs' = GetSign(fs, name, Y(<<1, 2, 3>>), call.proc).fs
        /\ call' = Called("sign", name, Y(<<1, 2, 3>>), call.proc,
                          GetSign(fs, name, Y(<<1, 2, 3>>), call.proc))
    /\ nCalls' = nCalls + 1
    /\ UNCHANGED gwVars

NextErr == HashFails \/ SignFails

SpecErr == InitErr /\ [][NextErr]_vars

----------------------------------------------------------------------------
(* The certificate serial, for any container list and certificate list *)

ContainerRecords == {Container(id, name) : id \in {"c1", "c2"}, name \in {ContainerName, "other"}}
CertificateRecords ==
    {Certificate(serial, container) : serial \in {SerialA, SerialB}, container \in {"c1", "c2"}}
        \cup {<<Item("Serial", X(serial))>> : serial \in {SerialA, SerialB}}
        \cup {<<Item("Container", S(container))>> : container \in {"c1", "c2"}}

InitSerial ==
    /\ pc = "Idle" /\ op = "none" /\ args = None
    /\ data = <<>> /\ signed = NoSigned /\ sent = <<>>
    /\ response = NoResponse /\ outcome = NoOutcome
    /\ log = <<>> /\ cpInits = 0 /\ nOps = 0
    /\ fs = EmptyFS /\ nCalls = 0
    /\ \E containers \in SeqsUpTo(ContainerRecords, MaxRecords),
          certificates \in SeqsUpTo(CertificateRecords, MaxRecords) :
        call = [kind |-> "listed", containers |-> containers,
                certificates |-> certificates]

\* a caller runs get_certificate_serial on the lists the store gives
SerialCall ==
    /\ call.kind = "listed"
    /\ LET r == GetCertificateSerial(call.containers, call.certificates, ContainerName)
       IN  call' = [kind |-> "serial", containers |-> call.containers,
                    certificates |-> call.certificates, ret |-> r.ret, exc |-> r.exc]
    /\ nCalls' = nCalls + 1
    /\ UNCHANGED <<fs, pc, op, args, data, signed, sent, response, outcome, log,
                   cpInits, nOps>>

NextSerial == SerialCall

SpecSerial == InitSerial /\ [][NextSerial]_vars

----------------------------------------------------------------------------
(* cryptopro.py: the parsers of the executables' output.  A line is kept
   character by character; the patterns are computed on the characters. *)

BS == "\\"
\* \s and \d on the characters the model feeds
IsSpace(c) == c \in {" ", "\t"}
IsDigit(c) == c \in {"0", "1", "2", "3", "4", "5", "6", "7", "8", "9"}

RECURSIVE LStrip(_)
LStrip(chars) ==
    IF chars # <<>> /\ IsSpace(Head(chars)) THEN LStrip(Tail(chars)) ELSE chars
RECURSIVE RStrip(_)
RStrip(chars) ==
    IF chars # <<>> /\ IsSpace(chars[Len(chars)])
    THEN RStrip(SubSeq(chars, 1, Len(chars) - 1)) ELSE chars
\* what \s*(.*?)\s*$ captures
Strip(chars) == RStrip(LStrip(chars))

\* the first place at or after `from` where the line holds c; 0 when none
FirstAt(line, c, from) ==
    IF \E i \in from..Len(line) : line[i] = c
    THEN CHOOSE i \in from..Len(line) :
            line[i] = c /\ \A j \in from..(i - 1) : line[j] # c
    ELSE 0

\* the mutant of Replace: nothing is removed
ReplaceNothing(chars, sub) == chars

RECURSIVE Replace(_, _)
\* s.replace(sub, ''), sub not empty
Replace(chars, sub) ==
    IF Len(chars) < Len(sub) THEN chars
    ELSE IF SubSeq(chars, 1, Len(sub)) = sub
         THEN Replace(SubSeq(chars, Len(sub) + 1, Len(chars)), sub)
    ELSE <<Head(chars)>> \o Replace(Tail(chars), sub)

\* re.search(r'^((\\\\\.\\[^\\]+?\\)(.*?))\s*\|\s*(.*?)\s*$', line):
\* group 2 runs from \\.\ to the next backslash, with at least one character
\* in between; group 1 goes on to the first | after it, less the spaces
\* before the |; group 4 is the rest, stripped
ContainerMatch(line) ==
    LET j == IF Len(line) >= 6 /\ SubSeq(line, 1, 4) = <<BS, BS, ".", BS>>
             THEN FirstAt(line, BS, 5) ELSE 0
        q == IF j >= 6 THEN FirstAt(line, "|", j + 1) ELSE 0
    IN  IF j < 6 \/ q = 0
        THEN [ok |-> FALSE, name |-> <<>>, prefix |-> <<>>, unique |-> <<>>]
        ELSE [ok |-> TRUE,
              name |-> SubSeq(line, 1, j) \o RStrip(SubSeq(line, j + 1, q - 1)),
              prefix |-> SubSeq(line, 1, j),
              unique |-> Strip(SubSeq(line, q + 1, Len(line)))]

RECURSIVE ContainerItems(_)
\* the loop of get_containers over the lines of stdout
ContainerItems(lines) ==
    IF lines = <<>> THEN <<>>
    ELSE LET match == ContainerMatch(Head(lines))
         IN  (IF match.ok
              THEN <<[id |-> Cat(Replace(match.unique, match.prefix)),
                      name |-> Cat(match.name)]>>
              ELSE <<>>) \o ContainerItems(Tail(lines))

\* CryptoPro.get_containers, on the lines of the executable's stdout
GetContainers(lines) == ContainerItems(lines)

\* re.search(r'^=+$', line)
IsSeparator(line) == line # <<>> /\ \A i \in 1..Len(line) : line[i] = "="

\* re.search(r'\d+\-+$', line): the line ends with dashes that follow a digit
IsMarker(line) ==
    \E i \in 1..(Len(line) - 1) :
        /\ IsDigit(line[i])
        /\ \A j \in (i + 1)..Len(line) : line[j] = "-"

\* re.search(r'^(.*?)\s+:\s+(.*?)\s*$', line): group 1 is the shortest start
\* of the line that spaces, a colon and a space follow; group 2 is what
\* comes after that colon, stripped
FieldMatch(line) ==
    LET Fits(k) ==
            \E r \in (k + 1)..(Len(line) - 2) :
                /\ \A i \in (k + 1)..r : IsSpace(line[i])
                /\ line[r + 1] = ":"
                /\ IsSpace(line[r + 2])
        Colon(k) == CHOOSE r \in (k + 1)..(Len(line) - 2) :
                /\ \A i \in (k + 1)..r : IsSpace(line[i])
                /\ line[r + 1] = ":"
                /\ IsSpace(line[r + 2])
    IN  IF \E k \in 0..Len(line) : Fits(k)
        THEN LET k == CHOOSE k \in 0..Len(line) :
                          Fits(k) /\ \A h \in 0..(k - 1) : ~Fits(h)
             IN  [ok |-> TRUE, key |-> SubSeq(line, 1, k),
                  value |-> Strip(SubSeq(line, Colon(k) + 2, Len(line)))]
        ELSE [ok |-> FALSE, key |-> <<>>, value |-> <<>>]

\* re.search(r'^\s{3,}(.*?)\s*$', line)
ContinuationMatch(line) ==
    IF Len(line) >= 3 /\ \A i \in 1..3 : IsSpace(line[i])
    THEN [ok |-> TRUE, value |-> Strip(line)]
    ELSE [ok |-> FALSE, value |-> <<>>]

RECURSIVE CertificateItems(_, _, _, _)
\* the loop of get_certificates: items, item (None or a dict) and key (None
\* or a str) as the loop keeps them; [ret, exc] when it ends
CertificateItems(lines, items, item, key) ==
    IF lines = <<>> THEN [ret |-> items, exc |-> NoExc]
    ELSE
    LET line == Head(lines)
        rest == Tail(lines)
        field == FieldMatch(line)
        more == ContinuationMatch(line)
    IN  IF IsSeparator(line)
        THEN IF Truthy(item)
             THEN CertificateItems(rest, Append(items, item.v), None, None)
             ELSE CertificateItems(rest, items, item, key)
        ELSE IF IsMarker(line)
        THEN CertificateItems(rest, items, D(<<>>), key)
        ELSE IF item # None
        THEN IF field.ok
             THEN CertificateItems(rest, items,
                                   D(Put(item.v, Cat(field.key), X(field.value))),
                                   S(Cat(field.key)))
             ELSE IF Truthy(key) /\ more.ok
             THEN IF ~Has(item.v, key.v)
                  THEN [ret |-> None, exc |-> KeyError(key.v)]
                  ELSE IF Lookup(item.v, key.v).t = "list"
                  THEN CertificateItems(rest, items,
                           D(Put(item.v, key.v,
                                 L(Append(Lookup(item.v, key.v).v, X(more.value))))),
                           key)
                  ELSE CertificateItems(rest, items,
                           D(Put(item.v, key.v,
                                 L(<<Lookup(item.v, key.v), X(more.value)>>))),
                           key)
             ELSE CertificateItems(rest, items, item, key)
        ELSE CertificateItems(rest, items, item, key)

\* CryptoPro.get_certificates, on the lines of the executable's stdout
GetCertificates(lines) == CertificateItems(lines, <<>>, None, None)

----------------------------------------------------------------------------
(* The container list, for any output of csptest -enum_cont *)

\* the prefix of a container's name: \\.\H\
DevicePrefix == <<BS, BS, ".", BS, "H", BS>>
\* a line <prefix><name><spaces>|<spaces><unique>
ContainerLine(name, before, after, unique) ==
    DevicePrefix \o name \o before \o <<"|">> \o after \o unique

\* lines the executable writes for a container, with the parts they are made of
ContainerSamples ==
    {[line |-> ContainerLine(name, before, after, unique), name |-> name,
      unique |-> unique] :
        <<name, before, after, unique>> \in
            {<<(<<"x">>), (<<>>), (<<>>), (DevicePrefix \o <<"I">>)>>,
             <<(<<"y", BS, "z">>), (<<" ">>), (<<" ">>),
               (DevicePrefix \o <<"J", " ">>)>>,
             <<(<<"x">>), (<<>>), (<<" ">>), (<<"K">>)>>,
             <<(<<"x">>), (<<>>), (<<>>), (<<"I", "|", "J">>)>>}}

\* the other lines it writes: a banner, a line without the prefix, one without
\* the bar, one whose prefix names no device, an indented one, an empty one
OtherContainerLines ==
    {<<"A", ":", " ", "O">>,
     <<"x", "|", "I">>,
     DevicePrefix \o <<"x">>,
     <<BS, BS, ".", BS, BS, "x", "|", "I">>,
     <<" ">> \o ContainerLine(<<"x">>, <<>>, <<>>, <<"I">>),
     <<>>}

ContainerLines == {s.line : s \in ContainerSamples} \cup OtherContainerLines

\* what the executable did: it could not be started, or it wrote these lines
\* to stdout and exited with this code
Listing(raises, returncode, lines) ==
    [raises |-> raises, returncode |-> returncode, lines |-> lines]

InitContainers ==
    /\ pc = "Idle" /\ op = "none" /\ args = None
    /\ data = <<>> /\ signed = NoSigned /\ sent = <<>>
    /\ response = NoResponse /\ outcome = NoOutcome
    /\ log = <<>> /\ cpInits = 0 /\ nOps = 0
    /\ fs = EmptyFS /\ nCalls = 0
    /\ \/ call = [kind |-> "enum_cont", proc |-> Listing(TRUE, 0, <<>>)]
       \/ \E lines \in SeqsUpTo(ContainerLines, MaxContainerLines),
             returncode \in {0, 1} :
            call = [kind |-> "enum_cont", proc |-> Listing(FALSE, returncode, lines)]

\* a caller runs get_containers on what the executable wrote
ContainersCall ==
    /\ call.kind = "enum_cont"
    /\ call' = IF call.proc.raises
               THEN [kind |-> "containers", proc |-> call.proc, ret |-> None,
                     exc |-> OSError("subprocess.run")]
               ELSE [kind |-> "containers", proc |-> call.proc,
                     ret |-> GetContainers(call.proc.lines), exc |-> NoExc]
    /\ nCalls' = nCalls + 1
    /\ UNCHANGED <<fs, pc, op, args, data, signed, sent, response, outcome, log,
                   cpInits, nOps>>

NextContainers == ContainersCall

SpecContainers == InitContainers /\ [][NextContainers]_vars

----------------------------------------------------------------------------
(* The certificate list, for any output of certmgr -list *)

SeparatorLine == <<"=", "=", "=">>
MarkerLine == <<"1", "-", "-">>
\* Key : Value
FieldLine(key, value) == key \o <<" ", " ", ":", " ">> \o value
\* a line that starts with three or more spaces
IndentedLine(value) == <<" ", " ", " ", " ">> \o value

FieldLines ==
    {FieldLine(<<"C">>, <<"a">>), FieldLine(<<"C">>, <<"b">>),
     FieldLine(<<"E">>, <<"a">>)}
IndentedLines ==
    {IndentedLine(<<"2">>), IndentedLine(<<"3">>), IndentedLine(<<"2", "-">>)}
CertificateLines ==
    {SeparatorLine, MarkerLine, <<" ", " ", "2">>} \cup FieldLines \cup IndentedLines

InitCertificates ==
    /\ pc = "Idle" /\ op = "none" /\ args = None
    /\ data = <<>> /\ signed = NoSigned /\ sent = <<>>
    /\ response = NoResponse /\ outcome = NoOutcome
    /\ log = <<>> /\ cpInits = 0 /\ nOps = 0
    /\ fs = EmptyFS /\ nCalls = 0
    /\ \/ call = [kind |-> "list", proc |-> Listing(TRUE, 0, <<>>)]
       \/ \E lines \in SeqsUpTo(CertificateLines, MaxCertificateLines) :
            call = [kind |-> "list", proc |-> Listing(FALSE, 0, lines)]

\* a caller runs get_certificates on what the executable wrote
CertificatesCall ==
    /\ call.kind = "list"
    /\ call' = IF call.proc.raises
               THEN [kind |-> "certificates", proc |-> call.proc, ret |-> None,
                     exc |-> OSError("subprocess.run")]
               ELSE [kind |-> "certificates", proc |-> call.proc,
                     ret |-> GetCertificates(call.proc.lines).ret,
                     exc |-> GetCertificates(call.proc.lines).exc]
    /\ nCalls' = nCalls + 1
    /\ UNCHANGED <<fs, pc, op, args, data, signed, sent, response, outcome, log,
                   cpInits, nOps>>

NextCertificates == CertificatesCall

SpecCertificates == InitCertificates /\ [][NextCertificates]_vars

----------------------------------------------------------------------------
(* The signer adapter under concurrent callers: get_hash and get_sign step by
   step, each caller at its own position; a step is one access to the file
   system (create the input file, run the executable, flush the input file,
   flush the output file). *)

Threads == 1..MaxThreads

\* a file on disk together with the call that made it (the call itself for its
\* input file, the executable the call ran for the output file)
Owned(id, content) == [t |-> "file", by |-> id, v |-> content]

Idle == [kind |-> "none", at |-> "idle", id |-> 0, name |-> "", proc |-> None,
         ret |-> None, exc |-> NoExc, took |-> {}]

\* the call is between _create_temp_file and its return or raise
InFlight(c) == c.at \in {"created", "ran", "flushedIn"}
InPath(c) == c.name
OutPath(c) == c.name \o (IF c.kind = "hash" THEN ".hash" ELSE ".sign")

\* what the executable may do under a concurrent caller
ConcurrentProcs == {p \in Procs : p.stderr # ErrorStream}

InitConcurrent ==
    /\ pc = "Idle" /\ op = "none" /\ args = None
    /\ data = <<>> /\ signed = NoSigned /\ sent = <<>>
    /\ response = NoResponse /\ outcome = NoOutcome
    /\ log = <<>> /\ cpInits = 0 /\ nOps = 0
    /\ fs = EmptyFS /\ nCalls = 0
    /\ call = [t \in Threads |-> Idle]

\* get_hash / get_sign: in_file_name = self._create_temp_file(content)
Enter(t) ==
    /\ ~InFlight(call[t])
    /\ nCalls < MaxCalls
    /\ \E kind \in {"hash", "sign"}, name \in FreshNames(fs),
          content \in Contents, proc \in ConcurrentProcs :
        /\ fs' = CreateTempFile(fs, name, Owned(nCalls + 1, Encode(content)))
        /\ call' = [call EXCEPT ![t] =
                        [kind |-> kind, at |-> "created", id |-> nCalls + 1,
                         name |-> name, proc |-> proc,
                         ret |-> None, exc |-> NoExc, took |-> {}]]
    /\ nCalls' = nCalls + 1
    /\ UNCHANGED gwVars

\* get_hash / get_sign: res = self._execute(...), the executable writes out_file
Execute(t) ==
    /\ call[t].at = "created"
    /\ IF call[t].proc.raises
       THEN /\ call' = [call EXCEPT ![t].at = "done",
                                    ![t].exc = OSError("subprocess.run")]
            /\ UNCHANGED fs
       ELSE /\ call' = [call EXCEPT ![t].at = "ran"]
            /\ fs' = IF call[t].proc.out = None THEN fs
                     ELSE FsPut(fs, OutPath(call[t]),
                                Owned(call[t].id, call[t].proc.out))
    /\ UNCHANGED <<nCalls, gwVars>>

\* get_hash / get_sign: self._flush_temp_file(in_file_name), then
\* `if res.returncode: raise self._get_error(res)`
FlushInput(t) ==
    /\ call[t].at = "ran"
    /\ LET r == FlushTempFile(fs, InPath(call[t]))
           took == IF Raised(r.exc) THEN {} ELSE {r.ret.by}
       IN  /\ fs' = r.fs
           /\ call' = [call EXCEPT ![t] =
                IF Raised(r.exc)
                THEN [@ EXCEPT !.at = "done", !.exc = r.exc]
                ELSE IF call[t].proc.returncode # 0
                THEN [@ EXCEPT !.at = "done", !.took = took,
                               !.exc = GetError(call[t].proc)]
                ELSE [@ EXCEPT !.at = "flushedIn", !.took = took]]
    /\ UNCHANGED <<nCalls, gwVars>>

\* get_hash / get_sign: result = self._flush_temp_file(out_file_name)
FlushOutput(t) ==
    /\ call[t].at = "flushedIn"
    /\ LET r == FlushTempFile(fs, OutPath(call[t]))
       IN  /\ fs' = r.fs
           /\ call' = [call EXCEPT ![t] =
                IF Raised(r.exc)
                THEN [@ EXCEPT !.at = "done", !.exc = r.exc]
                ELSE [@ EXCEPT !.at = "done", !.ret = r.ret.v,
                               !.took = @ \cup {r.ret.by}]]
    /\ UNCHANGED <<nCalls, gwVars>>

NextConcurrent ==
    \E t \in Threads : Enter(t) \/ Execute(t) \/ FlushInput(t) \/ FlushOutput(t)

SpecConcurrent == InitConcurrent /\ [][NextConcurrent]_vars

----------------------------------------------------------------------------
(* Claims *)

\* the place of key k among the keys of d in ascending order
Rank(d, k) == Cardinality({j \in KeySet(d) : KeyLess(j, k)}) + 1
KeyAt(d, i) == CHOOSE k \in KeySet(d) : Rank(d, k) = i
\* str(d[k]) for the keys of d in ascending order, nothing in between
AscendingContent(d) == Cat([i \in 1..Len(d) |-> Str(Lookup(d, KeyAt(d, i)))])
Reordered(d, p) == [i \in 1..Len(d) |-> d[p[i]]]

\* C1: the content the signing step hands to the signer's hash is the
\* concatenation, with no separators, of str(M[k]) for the keys of the field
\* map in ascending order, and the same map built in any other insertion
\* order gives the same content.
C1_SignContentSortedByKey ==
    pc = "Hash" =>
        /\ signed.content = AscendingContent(signed.data)
        /\ \A p \in Permutations(1..Len(signed.data)) :
              SignContent(Reordered(signed.data, p)) = signed.content

C1_Witness ==
    /\ pc = "Hash" /\ op = "create_payment"
    /\ Keys(signed.data) = <<"OrderId", "CardId", "Amount", "ClientId", "DATA", "TerminalKey">>
    /\ signed.content = "15001c1k=v|n=21test_key"

\* the fields the operation itself puts in its request
OperationFields(o, a) ==
    CASE o = "create_payment" ->
           {"OrderId", "CardId", "Amount"}
               \cup (IF a.client_id # None THEN {"ClientId"} ELSE {})
               \cup (IF a.data # None THEN {"DATA"} ELSE {})
      [] o \in {"proceed_payment", "get_payment"} -> {"PaymentId"}
      [] o = "create_client" ->
           {"CustomerKey"} \cup (IF a.email # None THEN {"Email"} ELSE {})
                           \cup (IF a.phone # None THEN {"Phone"} ELSE {})
      [] o \in {"delete_client", "get_client", "get_cards"} -> {"CustomerKey"}
      [] o = "create_card" ->
           {"CustomerKey"} \cup (IF a.check_type # None THEN {"CheckType"} ELSE {})
                           \cup (IF a.comment # None THEN {"Description"} ELSE {})
                           \cup (IF a.form_type # None THEN {"PayForm"} ELSE {})
      [] o = "delete_card" -> {"CardId", "CustomerKey"}

\* C2: the signature is computed over exactly the operation's fields plus
\* TerminalKey, none of them a signature field, and the request sent holds
\* exactly those fields, unchanged, plus the three signature fields.
C2_SignedSetIsSentSet ==
    /\ pc # "Idle" =>
          /\ KeySet(signed.data) = OperationFields(op, args) \cup {"TerminalKey"}
          /\ KeySet(signed.data) \cap SignatureFields = {}
    /\ \A i \in 1..Len(sent) :
          /\ KeySet(sent[i].data) = KeySet(signed.data) \cup SignatureFields
          /\ \A k \in KeySet(signed.data) :
                Lookup(sent[i].data, k) = Lookup(signed.data, k)
          /\ Lookup(sent[i].data, "DigestValue") = S(signed.digest_b64)
          /\ Lookup(sent[i].data, "SignatureValue") = S(signed.sign_b64)
          /\ Lookup(sent[i].data, "X509SerialNumber") = signed.serial

C2_Witness ==
    /\ pc = "Success" /\ op = "create_card" /\ Len(sent) = 1
    /\ KeySet(sent[1].data) =
          {"CustomerKey", "CheckType", "Description", "PayForm", "TerminalKey",
           "DigestValue", "SignatureValue", "X509SerialNumber"}

\* the signer failed with its coded error during the signing step
SignerFailed == pc = "Failed" /\ call.exc.kind = "CryptoProError"

\* C3 as stated: when the signer fails while a gateway operation prepares its
\* signature, the caller receives a gateway-domain error (TinkoffError).
C3_SignerErrorIsTinkoffError ==
    SignerFailed => outcome.exc.kind = "TinkoffError"

\* C3 amended: when the signer fails while a gateway operation prepares its
\* signature, the caller receives the signer's own error (CryptoProError),
\* with its code and message unchanged, and no request has been sent.
C3_SignerErrorIsReraised ==
    SignerFailed => outcome.exc = call.exc /\ outcome.ret = None /\ sent = <<>>

C3_Witness ==
    /\ pc = "Failed" /\ call.kind = "sign"
    /\ outcome.exc = CryptoProError("Some error", 123)

\* the transport returned a reply whose status is an HTTP error
HttpFailed == response # NoResponse /\ response.status_code >= 400
\* the transport returned a reply that passes the status check and whose body
\* is an object with success flag false
Rejected ==
    /\ response # NoResponse /\ response.status_code < 400
    /\ response.json.t = "dict" /\ Has(response.json.v, "Success")
    /\ Lookup(response.json.v, "Success") = B(FALSE)

\* C4: a signer failure, an HTTP failure and a remote rejection are reported
\* with three different error kinds (CryptoProError, HTTPError, TinkoffError),
\* and each kind is raised for its own cause only.
C4_ErrorKindsByCause ==
    pc = "Failed" =>
        /\ outcome.exc.kind = "CryptoProError" <=> call.exc.kind = "CryptoProError"
        /\ outcome.exc.kind = "HTTPError" <=> HttpFailed
        /\ outcome.exc.kind = "TinkoffError" <=> Rejected
        /\ Cardinality({CryptoProError("", 0).kind, HTTPError.kind,
                        TinkoffError("", None).kind}) = 3

C4_Witness ==
    /\ pc = "Failed" /\ Rejected /\ response.status_code = 302
    /\ outcome.exc.kind = "TinkoffError"

\* C5: when the transport returns a status of 400 or above, the operation
\* raises the transport-level error and never a gateway error, whatever the
\* body holds.
C5_HttpStatusRaisesHttpError ==
    (pc \in {"Success", "Failed"} /\ HttpFailed) =>
        pc = "Failed" /\ outcome.exc = HTTPError /\ outcome.ret = None

C5_Witness ==
    /\ pc = "Failed" /\ response.status_code = 404
    /\ response.json.t = "dict" /\ Has(response.json.v, "Success")
    /\ Lookup(response.json.v, "Success") = B(FALSE)
    /\ outcome.exc = HTTPError

\* a field of the body that is there and not null
Given(body, key) == Has(body, key) /\ Lookup(body, key) # None
\* a field of the body that is there, not null and not empty
GivenNonEmpty(body, key) == Given(body, key) /\ Lookup(body, key) # S("")

\* C6 as stated: a rejected operation raises a gateway error whose code is the
\* body's ErrorCode ("-1" when absent) and whose message is Details then
\* Message joined by one space, leaving out whichever is absent.
C6_MessageOfFieldsPresent ==
    (pc \in {"Success", "Failed"} /\ Rejected) =>
        LET body == response.json.v
        IN  /\ pc = "Failed" /\ outcome.ret = None
            /\ outcome.exc.kind = "TinkoffError"
            /\ outcome.exc.code =
                  (IF Has(body, "ErrorCode") THEN Lookup(body, "ErrorCode") ELSE S("-1"))
            /\ outcome.exc.message =
                  (IF Given(body, "Details") /\ Given(body, "Message")
                   THEN Lookup(body, "Details").v \o " " \o Lookup(body, "Message").v
                   ELSE IF Given(body, "Details") THEN Lookup(body, "Details").v
                   ELSE IF Given(body, "Message") THEN Lookup(body, "Message").v
                   ELSE "")

\* C6 amended: ... leaving out whichever of the two is absent or empty.
C6_MessageOfFieldsNonEmpty ==
    (pc \in {"Success", "Failed"} /\ Rejected) =>
        LET body == response.json.v
        IN  /\ pc = "Failed" /\ outcome.ret = None
            /\ outcome.exc.kind = "TinkoffError"
            /\ outcome.exc.code =
                  (IF Has(body, "ErrorCode") THEN Lookup(body, "ErrorCode") ELSE S("-1"))
            /\ outcome.exc.message =
                  (IF GivenNonEmpty(body, "Details") /\ GivenNonEmpty(body, "Message")
                   THEN Lookup(body, "Details").v \o " " \o Lookup(body, "Message").v
                   ELSE IF GivenNonEmpty(body, "Details") THEN Lookup(body, "Details").v
                   ELSE IF GivenNonEmpty(body, "Message") THEN Lookup(body, "Message").v
                   ELSE "")

C6_Witness ==
    /\ pc = "Failed" /\ Rejected /\ response.status_code = 200
    /\ ~Has(response.json.v, "ErrorCode")
    /\ outcome.exc = TinkoffError("There is an error here Some error", S("-1"))

\* a hash or sign call has ended
CallEnded == call.kind \in {"hash", "sign"}
OutFile == call.name \o (IF call.kind = "hash" THEN ".hash" ELSE ".sign")

\* C7: after a hash or sign call has ended, on whatever path, neither its
\* input file nor its output file exists.
C7_NoTempFileLeft ==
    CallEnded => ~Exists(fs, call.name) /\ ~Exists(fs, OutFile)

\* C8: when the executable exits 0 having written bytes B to the output file,
\* hash and sign return exactly B and neither temporary file exists afterwards.
C8_ReturnsOutputAndCleansUp ==
    (CallEnded /\ ~call.proc.raises /\ call.proc.returncode = 0 /\ call.proc.out # None) =>
        /\ call.ret = call.proc.out /\ ~Raised(call.exc)
        /\ ~Exists(fs, call.name) /\ ~Exists(fs, OutFile)

C8_Witness ==
    /\ call.kind = "sign" /\ nCalls = 2
    /\ call.proc = Proc(FALSE, 0, Y(<<255>>), <<>>)
    /\ call.ret = Y(<<255>>)

\* the lines of the error stream of the call that match the pattern
ErrorLines == GetLines(call.proc.stderr)
Matching == {i \in 1..Len(ErrorLines) : ErrorNumberMatch(ErrorLines[i]).ok}
NumberAt(i) == ErrorNumberMatch(ErrorLines[i]).n
\* the last line of the first run of consecutive matching lines
LastOfFirstRun ==
    LET first == CHOOSE i \in Matching : \A j \in Matching : i <= j
    IN  CHOOSE i \in Matching :
            /\ \A j \in first..i : j \in Matching
            /\ (i + 1) \notin Matching
ExitedNonZero == CallEnded /\ ~call.proc.raises /\ call.proc.returncode # 0

Named == {i \in 1..Len(call.containers) : call.containers[i].name = ContainerName}
NamedId == call.containers[CHOOSE i \in Named : \A j \in Named : i <= j].id
Referring ==
    {i \in 1..Len(call.certificates) :
        /\ Has(call.certificates[i], "Container")
        /\ Lookup(call.certificates[i], "Container") = S(NamedId)}
SerialOf(chars) == IF chars = SerialA THEN "0a1b" ELSE IF chars = SerialB THEN "1f" ELSE "?"

\* C10: certificateSerial returns the Serial of the certificate that refers
\* to the id of the container with the configured name, without "0x" and in
\* lower case; it returns null and does not raise when no container has the
\* name or no certificate refers to it, even when a certificate record has
\* no Container field.
C10_SerialOrNull ==
    call.kind = "serial" =>
        /\ ~Raised(call.exc)
        /\ IF Named = {} \/ Referring = {} THEN call.ret = None
           ELSE LET cert == call.certificates[CHOOSE i \in Referring :
                                                  \A j \in Referring : i <= j]
                IN  Has(cert, "Serial") =>
                        call.ret = S(SerialOf(Lookup(cert, "Serial").v))

\* the lines the certificate listing wrote, and those of its first block when
\* the listing opens with a marker: the lines after it up to the separator at s
Listed == call.proc.lines
FieldKeys == {<<"C">>, <<"E">>}
FieldValues == {<<"a">>, <<"b">>}
IsFieldOf(line, key) == \E v \in FieldValues : line = FieldLine(key, v)
OpensBlock(s) ==
    /\ s \in 2..Len(Listed)
    /\ Listed[1] = MarkerLine /\ Listed[s] = SeparatorLine
    /\ \A h \in 2..(s - 1) : Listed[h] # SeparatorLine /\ Listed[h] # MarkerLine
CertificatesListed == call.kind = "certificates" /\ ~call.proc.raises

\* C11: when a key appears on two Key : Value lines inside one block, the
\* record's field for that key is the list [first value, second value].
C11_RepeatedKeyKeepsBoth ==
    CertificatesListed =>
        \A s \in 2..Len(Listed), i, j \in 2..Len(Listed),
           k \in FieldKeys, a, b \in FieldValues :
            (/\ OpensBlock(s) /\ i < j /\ j < s
             /\ \A h \in 2..(s - 1) : \E key \in FieldKeys : IsFieldOf(Listed[h], key)
             /\ Listed[i] = FieldLine(k, a) /\ Listed[j] = FieldLine(k, b)
             /\ \A h \in (2..(s - 1)) \ {i, j} : ~IsFieldOf(Listed[h], k))
            => /\ ~Raised(call.exc) /\ Len(call.ret) >= 1
               /\ Has(call.ret[1], Cat(k))
               /\ Lookup(call.ret[1], Cat(k)) = L(<<X(a), X(b)>>)

\* a line with three or more leading spaces that has no Key : Value form
IsContinuation(line) ==
    /\ Len(line) >= 3 /\ \A i \in 1..3 : line[i] = " "
    /\ ~\E i \in 1..(Len(line) - 2) :
            line[i] = " " /\ line[i + 1] = ":" /\ line[i + 2] = " "
\* the text of a line without the spaces around it
TextOf(line) == CHOOSE v \in {<<"2">>, <<"3">>, <<"2", "-">>} : line = IndentedLine(v)

\* C12: inside a block, the continuation lines that follow a field line are
\* appended to that field in input order: with none the field is the scalar,
\* with n of them it is the list [field value, continuation 1, ..., n].
C12_ContinuationsAppend ==
    CertificatesListed =>
        \A s \in 2..Len(Listed), i \in 2..Len(Listed), e \in 2..Len(Listed),
           k \in FieldKeys, v \in FieldValues :
            (/\ OpensBlock(s) /\ i <= e /\ e < s
             /\ \A h \in 2..(s - 1) :
                    IsContinuation(Listed[h]) \/ \E key \in FieldKeys : IsFieldOf(Listed[h], key)
             /\ Listed[i] = FieldLine(k, v)
             /\ \A h \in (2..(s - 1)) \ {i} : ~IsFieldOf(Listed[h], k)
             /\ \A h \in (i + 1)..e : IsContinuation(Listed[h])
             /\ ~IsContinuation(Listed[e + 1]))
            => /\ ~Raised(call.exc) /\ Len(call.ret) >= 1
               /\ Has(call.ret[1], Cat(k))
               /\ Lookup(call.ret[1], Cat(k)) =
                     (IF e = i THEN X(v)
                      ELSE L(<<X(v)>> \o [h \in 1..(e - i) |-> X(TextOf(Listed[i + h]))]))

\* the unique id less the spaces around it and less the prefix it starts with
IdOf(unique) ==
    LET u == CHOOSE w \in {SubSeq(unique, 1, n) : n \in 0..Len(unique)} :
                 w = unique \/ (w \o <<" ">> = unique)
    IN  IF Len(u) >= Len(DevicePrefix) /\ SubSeq(u, 1, Len(DevicePrefix)) = DevicePrefix
        THEN SubSeq(u, Len(DevicePrefix) + 1, Len(u)) ELSE u
RECURSIVE RecordsOf(_)
\* one record for each line made of a prefix, a name, a bar and a unique id
RecordsOf(lines) ==
    IF lines = <<>> THEN <<>>
    ELSE (IF \E s \in ContainerSamples : s.line = Head(lines)
          THEN LET s == CHOOSE s \in ContainerSamples : s.line = Head(lines)
               IN  <<[id |-> Cat(IdOf(s.unique)), name |-> Cat(DevicePrefix \o s.name)]>>
          ELSE <<>>) \o RecordsOf(Tail(lines))

\* C13: get_containers returns one record for each line of the form
\* <prefix><name> | <unique id>, in input order, its name the prefix and the
\* name, its id the unique id without the prefix; other lines give no record
\* and no error.
C13_OneRecordPerContainerLine ==
    (call.kind = "containers" /\ ~call.proc.raises) =>
        ~Raised(call.exc) /\ call.ret = RecordsOf(call.proc.lines)

C13_Witness ==
    /\ call.kind = "containers"
    /\ Len(call.proc.lines) = 3 /\ call.proc.lines[2] \in OtherContainerLines
    /\ call.ret = <<[id |-> "J", name |-> "\\\\.\\H\\y\\z"],
                    [id |-> "I", name |-> "\\\\.\\H\\x"]>>

\* the reply passed the status check and, when it is a redirect, names where to
Redirected == response.status_code >= 300 /\ response.status_code <= 399
Accepted ==
    /\ response # NoResponse /\ response.status_code < 400
    /\ Redirected => Has(response.headers, "Location")
Ended == pc \in {"Success", "Failed"}

\* C14: an array body is wrapped as {items: array}, and get_cards returns one
\* record per element, in the same order, with the element's CardId, Pan and
\* Status as id, pan and status.
C14_CardsInOrder ==
    (Ended /\ op = "get_cards" /\ Accepted /\ response.json.t = "list") =>
        LET cards == response.json.v
            normalized == PrepareResponse(response).ret
        IN  /\ normalized.t = "dict"
            /\ KeySet(normalized.v) \ {"URL"} = {"items"}
            /\ Lookup(normalized.v, "items") = response.json
            /\ pc = "Success" /\ outcome.ret.t = "list"
            /\ Len(outcome.ret.v) = Len(cards)
            /\ \A i \in 1..Len(cards) :
                  /\ Lookup(outcome.ret.v[i].v, "id") = Lookup(cards[i].v, "CardId")
                  /\ Lookup(outcome.ret.v[i].v, "pan") = Lookup(cards[i].v, "Pan")
                  /\ Lookup(outcome.ret.v[i].v, "status") = Lookup(cards[i].v, "Status")

C14_Witness ==
    /\ pc = "Success" /\ op = "get_cards" /\ response.status_code = 200
    /\ outcome.ret.t = "list" /\ Len(outcome.ret.v) = 2
    /\ Lookup(outcome.ret.v[1].v, "pan") = S("1111")
    /\ Lookup(outcome.ret.v[2].v, "pan") = S("2222")

\* the body is an array, or an object whose success flag is true
Approved ==
    \/ response.json.t = "list"
    \/ /\ response.json.t = "dict" /\ Has(response.json.v, "Success")
       /\ Lookup(response.json.v, "Success") = B(TRUE)

\* C15: when the reply is a redirect (300..399) and not a rejection, the
\* normalized result holds URL = the Location header, and create_card and
\* create_payment return it as url when the body has no PaymentURL.
C15_RedirectLocationIsUrl ==
    (Ended /\ Accepted /\ Redirected /\ Approved) =>
        LET normalized == PrepareResponse(response).ret
            location == Lookup(response.headers, "Location")
        IN  /\ normalized.t = "dict" /\ Has(normalized.v, "URL")
            /\ Lookup(normalized.v, "URL") = location
            /\ (/\ op \in {"create_card", "create_payment"}
                /\ ~Has(response.json.v, "PaymentURL"))
               => /\ pc = "Success"
                  /\ Has(outcome.ret.v, "url")
                  /\ Lookup(outcome.ret.v, "url") = location

C15_Witness ==
    /\ pc = "Success" /\ op = "create_card" /\ response.status_code = 302
    /\ ~Has(response.json.v, "PaymentURL")
    /\ Lookup(outcome.ret.v, "url") = S("https://bank/form")

\* C16: an operation sends at most once; a failed operation has raised its
\* error and takes no further step: the next step is a new call by the caller.
C16_OneSendNoRetry ==
    /\ [](Len(sent) <= 1 /\ (pc = "Failed" => Raised(outcome.exc)))
    /\ [][pc = "Failed" => (pc' = "Hash" /\ nOps' = nOps + 1 /\ sent' = <<>>)]_vars

C16_Witness ==
    /\ pc = "Failed" /\ Len(sent) = 1 /\ nOps = 2
    /\ outcome.exc = ConnectionError

\* the optional inputs of an operation with the bank field of each
OptionalFields(o, a) ==
    CASE o = "create_payment" -> {<<"ClientId", a.client_id>>}
      [] o = "create_client" -> {<<"Email", a.email>>, <<"Phone", a.phone>>}
      [] o = "create_card" -> {<<"CheckType", a.check_type>>,
                               <<"Description", a.comment>>,
                               <<"PayForm", a.form_type>>}
      [] OTHER -> {}
\* key=value for each pair of the metadata, joined by |
Serialized(d) ==
    IF d = <<>> THEN ""
    ELSE IF Len(d) = 1 THEN d[1].k \o "=" \o Str(d[1].v)
    ELSE d[1].k \o "=" \o Str(d[1].v) \o "|" \o d[2].k \o "=" \o Str(d[2].v)
\* every field map of the operation: the one signed and those sent
FieldMaps == {signed.data} \cup {sent[i].data : i \in 1..Len(sent)}

\* C17: the signed and the sent field map hold the bank field of an optional
\* input exactly when the input was supplied, with the value supplied (for
\* the metadata: its pairs serialized); no field of them is null.
C17_OptionalFieldsIffSupplied ==
    pc # "Idle" =>
        \A m \in FieldMaps :
            /\ \A f \in OptionalFields(op, args) :
                  /\ Has(m, f[1]) <=> f[2] # None
                  /\ Has(m, f[1]) => Lookup(m, f[1]) = f[2]
            /\ op = "create_payment" =>
                  /\ Has(m, "DATA") <=> args.data # None
                  /\ Has(m, "DATA") => Lookup(m, "DATA") = S(Serialized(args.data.v))
            /\ \A k \in KeySet(m) \ SignatureFields : Lookup(m, k) # None

C17_Witness ==
    /\ pc = "Success" /\ op = "create_card" /\ Len(sent) = 1
    /\ args.check_type = None /\ args.comment = S("") /\ args.form_type = S("web")
    /\ Keys(sent[1].data) = <<"CustomerKey", "Description", "PayForm", "TerminalKey",
                              "DigestValue", "SignatureValue", "X509SerialNumber">>

\* C18: every request sent carries a complete signature bundle: DigestValue
\* and SignatureValue are the base64 strings of the digest and the signature,
\* X509SerialNumber is a string, never null.
C18_CompleteBundleSent ==
    \A i \in 1..Len(sent) :
        /\ Lookup(sent[i].data, "DigestValue") = S(ToBase64(signed.digest))
        /\ Lookup(sent[i].data, "SignatureValue") = S(ToBase64(signed.sign))
        /\ Lookup(sent[i].data, "X509SerialNumber") # None
        /\ Lookup(sent[i].data, "X509SerialNumber") \in {S("0a1b"), S("1f")}

----------------------------------------------------------------------------

\* two calls are in flight at once
Overlapping(t, u) == t # u /\ InFlight(call[t]) /\ InFlight(call[u])

\* C19: in every interleaving of concurrent hash and sign calls, no two calls
\* in flight have the same input file path or the same output file path, and
\* no call reads or deletes a temporary file made by another call.
C19_TempFilesNotShared ==
    /\ \A t, u \in Threads :
         Overlapping(t, u) =>
            /\ InPath(call[t]) # InPath(call[u])
            /\ OutPath(call[t]) # OutPath(call[u])
    /\ \A t \in Threads : call[t].took \subseteq {call[t].id}

\* the part of C19 about the input files while they exist: two calls that both
\* still hold their input file hold different ones
C19_InputFilesNotShared ==
    \A t, u \in Threads :
        (t # u /\ call[t].at \in {"created", "ran"} /\ call[u].at \in {"created", "ran"}) =>
            InPath(call[t]) # InPath(call[u])


----------------------------------------------------------------------------

\* the request dict the operation builds from its own arguments
RequestOf(o, a) ==
    CASE o = "create_payment" -> CreatePaymentRequest(a)
      [] o \in {"proceed_payment", "get_payment"} -> PaymentIdRequest(a)
      [] o = "create_client" -> CreateClientRequest(a)
      [] o \in {"delete_client", "get_client"} -> CustomerKeyRequest(a)
      [] o = "create_card" -> CreateCardRequest(a)
      [] o = "delete_card" -> DeleteCardRequest(a)
      [] o = "get_cards" -> GetCardsRequest(a)

\* what the call returns or raises once the transport has replied
Replied ==
    LET checked == CheckResponse(response)
    IN  IF Raised(checked.exc) THEN [ret |-> None, exc |-> checked.exc]
        ELSE IF Raised(ExtractResult(op, checked.ret).exc)
             THEN [ret |-> None, exc |-> ExtractResult(op, checked.ret).exc]
        ELSE ExtractResult(op, checked.ret)

----------------------------------------------------------------------------

\* a payment operation has returned its result for a success body
PaymentReturned ==
    /\ pc = "Success"
    /\ op \in {"create_payment", "proceed_payment", "get_payment"}
ReportedStatus == Lookup(response.json.v, "Status")

\* C21: create_payment, proceed_payment and get_payment return, for a success
\* body, id = the body's PaymentId, status = the body's Status and status_name
\* = the entry of PAYMENT_STATUS_MAPPING for that status: a non-empty
\* description for each of the eight statuses of the table, null (and no
\* error) for any other status.
C21_PaymentStatusNamed ==
    PaymentReturned =>
        /\ Lookup(outcome.ret.v, "id") = Lookup(response.json.v, "PaymentId")
        /\ Lookup(outcome.ret.v, "status") = ReportedStatus
        /\ Len(PAYMENT_STATUS_MAPPING) = 8
        /\ IF ReportedStatus.t = "str" /\ Has(PAYMENT_STATUS_MAPPING, ReportedStatus.v)
           THEN /\ Lookup(outcome.ret.v, "status_name")
                      = Lookup(PAYMENT_STATUS_MAPPING, ReportedStatus.v)
                /\ Lookup(outcome.ret.v, "status_name").t = "str"
                /\ Lookup(outcome.ret.v, "status_name").v # ""
           ELSE Lookup(outcome.ret.v, "status_name") = None

C21_Witness ==
    /\ PaymentReturned /\ op = "create_payment"
    /\ ReportedStatus = S("NEW")
    /\ Lookup(outcome.ret.v, "status_name") = S("Payment registered, processing not started")

\* a status the table does not hold is answered with a null name
C21_WitnessUnknownStatus ==
    /\ PaymentReturned /\ op = "get_payment"
    /\ ReportedStatus = S("AUTHORIZED")
    /\ Lookup(outcome.ret.v, "status_name") = None

----------------------------------------------------------------------------

\* the amount in minor units: 100 * a for an int a, c for the float written
\* as c hundredths
MinorUnits(amount) ==
    IF amount.t = "float" THEN CHOOSE c \in AmountCents : Float(c) = amount
    ELSE 100 * amount.v

PaymentSent == op = "create_payment" /\ sent # <<>>

\* C22: create_payment sends Amount = the amount in integer minor units: 100 * a
\* for an integer amount a, and 115 for the amount 1.15.
C22_AmountInMinorUnits ==
    PaymentSent => Lookup(sent[1].data, "Amount") = I(MinorUnits(args.amount))

\* the part of C22 about integer amounts: the field is exactly 100 * a; and a
\* float amount is sent as its minor units or as one unit less
C22_IntegerAmountsExact ==
    PaymentSent =>
        /\ args.amount.t = "int" =>
              Lookup(sent[1].data, "Amount") = I(100 * args.amount.v)
        /\ args.amount.t = "float" =>
              Lookup(sent[1].data, "Amount").v \in
                  {MinorUnits(args.amount) - 1, MinorUnits(args.amount)}

----------------------------------------------------------------------------

\* the phase of the operation at a position of the code
Phase(p) == IF p \in {"Hash", "Sign", "Serial"} THEN "Signing" ELSE p

\* the phases that may follow a phase (an operation starts on a client that
\* runs none: a new one, or one whose last operation has ended)
PhasesAfter(phase) ==
    CASE phase = "Idle" -> {"Signing"}
      [] phase = "Signing" -> {"Signing", "Sending", "Failed"}
      [] phase = "Sending" -> {"Interpreting", "Failed"}
      [] phase = "Interpreting" -> {"Success", "Failed"}
      [] phase \in {"Success", "Failed"} -> {"Signing"}

\* the three signer steps have returned without raising
SigningCompleted ==
    /\ call.kind = "serial" /\ ~Raised(call.exc)
    /\ signed.digest # None /\ signed.sign # None

\* C23: every operation goes through Idle, Signing, Sending, Interpreting in
\* that order and ends in exactly one of Success and Failed; the send happens
\* only after signing completed without error (a signing failure ends in
\* Failed with no request sent), and the reply is interpreted only after the
\* send returned.
C23_PhasesInOrder ==
    /\ [][Phase(pc') \in PhasesAfter(Phase(pc))]_pc
    /\ [][Len(sent') > Len(sent) =>
            /\ pc = "Sending" /\ SigningCompleted
            /\ Len(sent') = Len(sent) + 1]_vars
    /\ [](Phase(pc) = "Signing" => sent = <<>> /\ response = NoResponse)
    /\ [](pc = "Sending" => SigningCompleted /\ sent = <<>>)
    /\ [](pc = "Interpreting" => Len(sent) = 1 /\ response # NoResponse)
    /\ [](pc = "Failed" /\ Raised(call.exc) => sent = <<>>)
    /\ [](pc = "Success" => ~Raised(outcome.exc) /\ Len(sent) = 1)
    /\ [](pc = "Failed" => Raised(outcome.exc))

\* a signing failure has ended the operation with nothing sent
C23_Witness ==
    /\ pc = "Failed" /\ call.kind = "serial" /\ Raised(call.exc)
    /\ sent = <<>> /\ Raised(outcome.exc)

\* an operation has gone through all phases to Success
C23_WitnessSuccess ==
    /\ pc = "Success" /\ Len(sent) = 1 /\ response # NoResponse /\ SigningCompleted

----------------------------------------------------------------------------

\* the operation has handed a request to the transport
ReachedTransport == sent # <<>>
\* the executables the operation has run, in order
Executables == SelectSeq(log, LAMBDA x : x # "send")
\* the executables run for the hash, the signature and a serial lookup that
\* finds no container with the configured name
ThreeInvocations == <<"csptest -hash", "csptest -sign", "csptest -enum_cont">>
\* the same when the container is found: the certificates are listed as well
FourInvocations == ThreeInvocations \o <<"certmgr -list">>

\* C24 as stated: an operation that reaches the transport has run the signer
\* executable exactly three times before the send, for hash, sign and serial
\* lookup in that order, and runs it no more during the operation.
C24_ExactlyThreeInvocations ==
    ReachedTransport => log = ThreeInvocations \o <<"send">>

\* C24 amended: an operation that reaches the transport has made the three
\* signer calls hash, sign and serial lookup in that order before the send,
\* and none after it; the serial lookup runs one executable (the container
\* list) when no container has the configured name and two (the container
\* list, then the certificate list) when one has, so three or four
\* executables are run; a request with a serial has always run four.
C24_ThreeSignerCalls ==
    ReachedTransport =>
        /\ log \in {ThreeInvocations \o <<"send">>, FourInvocations \o <<"send">>}
        /\ signed.serial # None => Executables = FourInvocations
        /\ signed.digest # None /\ signed.sign # None /\ call.kind = "serial"

C24_Witness ==
    /\ ReachedTransport /\ pc = "Success"
    /\ Executables = FourInvocations /\ signed.serial # None

----------------------------------------------------------------------------

\* a signing step (hash, sign or serial lookup) of the client has run
SigningStepTaken == nOps >= 1 /\ (pc # "Hash" \/ nOps > 1)

\* C25: over any sequence of operations on one client the signer instance is
\* constructed at most once, at the first signing step, and every later
\* signing step uses that instance (none is constructed after it).
C25_SignerConstructedOnce ==
    /\ [](cpInits <= 1)
    /\ [](SigningStepTaken => cpInits = 1)
    /\ [][cpInits' # cpInits =>
            /\ cpInits = 0 /\ cpInits' = 1
            /\ pc = "Hash" /\ nOps = 1]_vars
    /\ [][(pc \in {"Hash", "Sign", "Serial"} /\ pc' # pc /\ cpInits = 1)
            => cpInits' = 1]_vars

\* a signing step of a second operation has used the first operation's signer
C25_Witness ==
    /\ nOps = 2 /\ pc = "Sending" /\ cpInits = 1

----------------------------------------------------------------------------

\* the digest and the signature the operation holds
Digest == signed.digest
Signature == signed.sign

\* C26: in the signing step hash is applied to the canonical content and sign
\* to the raw digest bytes hash returned, so that the request carries
\* DigestValue = base64(hash(content)) and SignatureValue =
\* base64(sign(hash(content))); when hash fails neither sign nor the serial
\* lookup is invoked, and when sign fails the serial lookup is not invoked.
C26_SignAppliedToDigest ==
    /\ [](call.kind = "hash" =>
            /\ call.input = Encode(S(signed.content))
            /\ ~Raised(call.exc) => signed.digest = call.ret)
    /\ [](call.kind = "sign" =>
            /\ call.input = signed.digest /\ call.input # Encode(S(signed.content))
            /\ ~Raised(call.exc) => signed.sign = call.ret)
    /\ [][(pc \in {"Sign", "Serial", "Sending", "Interpreting"}) =>
            signed.digest' = Digest]_vars
    /\ [][(pc \in {"Serial", "Sending", "Interpreting"}) =>
            signed.sign' = Signature]_vars
    /\ [](\A i \in 1..Len(sent) :
            /\ Lookup(sent[i].data, "DigestValue") = S(ToBase64(signed.digest))
            /\ Lookup(sent[i].data, "SignatureValue") = S(ToBase64(signed.sign)))
    /\ [](pc = "Failed" /\ call.kind = "hash" => log = <<"csptest -hash">>)
    /\ [](pc = "Failed" /\ call.kind = "sign" =>
            log = <<"csptest -hash", "csptest -sign">>)

\* the signature of a digest has been sent
C26_Witness ==
    /\ pc = "Interpreting" /\ Len(sent) = 1
    /\ signed.digest = Y(<<1, 2, 3>>) /\ signed.sign = Y(<<255>>)
    /\ Lookup(sent[1].data, "SignatureValue") = S(ToBase64(Y(<<255>>)))

\* sign has failed and the serial was not looked up
C26_WitnessSignFailed ==
    /\ pc = "Failed" /\ call.kind = "sign" /\ Raised(call.exc)
    /\ log = <<"csptest -hash", "csptest -sign">>

----------------------------------------------------------------------------

\* the transport has replied and the operation has ended
Answered == response # NoResponse /\ pc \in {"Success", "Failed"}
\* the reply is a redirect
Redirect == 300 <= response.status_code /\ response.status_code <= 399

\* C27: the reply is interpreted in a fixed precedence: a status of 400 or
\* above gives a transport error whatever the body; otherwise an object body
\* with success flag false gives a gateway error, also for a redirect, with
\* or without a Location header (no URL is attached, nothing is returned);
\* only otherwise is an array wrapped and a redirect's Location attached.
C27_InterpretationPrecedence ==
    Answered =>
        /\ response.status_code >= 400 =>
              pc = "Failed" /\ outcome = [ret |-> None, exc |-> HTTPError]
        /\ Rejected =>
              /\ pc = "Failed" /\ outcome.ret = None
              /\ outcome.exc = TinkoffError(ErrorMessage(response.json.v),
                                            GetOr(response.json.v, "ErrorCode", S("-1")))
        /\ pc = "Success" =>
              /\ response.status_code < 400 /\ ~Rejected
              /\ response.json.t = "list" =>
                    Lookup(PrepareResponse(response).ret.v, "items") = response.json
              /\ Redirect =>
                    Lookup(PrepareResponse(response).ret.v, "URL")
                        = Lookup(response.headers, "Location")

\* a redirect whose body is a rejection has ended in a gateway error
C27_Witness ==
    /\ Answered /\ Redirect /\ Rejected
    /\ Has(response.headers, "Location")
    /\ outcome.exc.kind = "TinkoffError"

\* a rejection body under an HTTP error status has ended in a transport error
C27_WitnessStatusFirst ==
    /\ Answered /\ response.status_code >= 400
    /\ response.json.t = "dict" /\ Has(response.json.v, "Success")
    /\ Lookup(response.json.v, "Success") = B(FALSE)
    /\ outcome.exc = HTTPError

----------------------------------------------------------------------------

\* the three kinds of error of the specification: signer, transport, gateway
ErrorKinds == {"CryptoProError", "HTTPError", "TinkoffError"}

\* C28: for every HTTP status and every shape of JSON body (an object with or
\* without a success flag, an array, null; a redirect with or without a
\* Location header), an operation that got a reply returns a result or fails
\* with a signer, transport or gateway error, never with another kind.
C28_OnlyThreeErrorKinds ==
    (Answered /\ pc = "Failed") => outcome.exc.kind \in ErrorKinds

\* the part of C28 that holds: a reply whose status is 400 or above, or whose
\* body is an object with a false success flag, fails with one of the kinds
C28_KnownFailuresHaveKnownKinds ==
    (Answered /\ (response.status_code >= 400 \/ Rejected)) =>
        pc = "Failed" /\ outcome.exc.kind \in ErrorKinds

----------------------------------------------------------------------------

\* get_certificates has run on the lines the executable wrote
Parsed == call.kind = "certificates" /\ ~call.proc.raises

\* C29: the certificate-list parser is total: for every sequence of separator,
\* marker, field, continuation and other lines, get_certificates returns a
\* list and does not raise.
C29_CertificateParserTotal ==
    Parsed => ~Raised(call.exc) /\ call.ret # None

\* the case C29 names: a marker directly followed by a marker and then a
\* continuation line is parsed without an error, the continuation is skipped
C29_MarkerMarkerContinuation ==
    (Parsed /\ Len(call.proc.lines) >= 3
            /\ IsMarker(call.proc.lines[1]) /\ IsMarker(call.proc.lines[2])
            /\ ContinuationMatch(call.proc.lines[3]).ok
            /\ ~IsMarker(call.proc.lines[3])
            /\ \A i \in 4..Len(call.proc.lines) :
                  IsSeparator(call.proc.lines[i]) \/ FieldMatch(call.proc.lines[i]).ok)
        => ~Raised(call.exc)

----------------------------------------------------------------------------

RECURSIVE BlockFields(_, _, _, _)
\* the field names of each block, in input order: a block runs from a marker
\* to the next separator, or to the end of the list
BlockFields(lines, blocks, open, keys) ==
    IF lines = <<>> THEN (IF open THEN Append(blocks, keys) ELSE blocks)
    ELSE IF Head(lines) = MarkerLine THEN BlockFields(Tail(lines), blocks, TRUE, {})
    ELSE IF Head(lines) = SeparatorLine
    THEN BlockFields(Tail(lines), IF open THEN Append(blocks, keys) ELSE blocks,
                     FALSE, {})
    ELSE BlockFields(Tail(lines), blocks, open,
                     IF open THEN keys \cup {Cat(FieldMatch(Head(lines)).key)}
                     ELSE keys)

\* markers, separators and field lines only, and no marker inside a block
BlocksOnly ==
    /\ \A i \in 1..Len(Listed) :
          Listed[i] \in {MarkerLine, SeparatorLine} \cup FieldLines
    /\ \A i, j \in 1..Len(Listed) :
          (i < j /\ Listed[i] = MarkerLine /\ Listed[j] = MarkerLine) =>
              \E s \in (i + 1)..(j - 1) : Listed[s] = SeparatorLine

\* every block has a field line and is closed by a separator
BlocksFilledAndClosed ==
    \A i \in 1..Len(Listed) :
        Listed[i] = MarkerLine =>
            /\ i < Len(Listed) /\ Listed[i + 1] \in FieldLines
            /\ \E s \in (i + 1)..Len(Listed) : Listed[s] = SeparatorLine

\* the records returned are those of the blocks, with their field names
RecordsAreBlocks ==
    /\ ~Raised(call.exc)
    /\ Len(call.ret) = Len(BlockFields(Listed, <<>>, FALSE, {}))
    /\ \A i \in 1..Len(call.ret) :
          KeySet(call.ret[i]) = BlockFields(Listed, <<>>, FALSE, {})[i]

\* C30: get_certificates returns, in input order, exactly one record per block
\* that starts with a marker, holding only the fields of the lines between
\* that marker and the next separator: a field line outside any block (before
\* the first marker, or after a separator and before the next marker, also
\* after a block with no fields) is in no record, and a final block that no
\* separator follows is still returned.
C30_OneRecordPerBlock ==
    (Parsed /\ BlocksOnly) => RecordsAreBlocks

\* the part of C30 that holds: when every block has a field and is closed by
\* a separator, the records are those of the blocks, and field lines outside
\* the blocks are in no record
C30_FilledClosedBlocks ==
    (Parsed /\ BlocksOnly /\ BlocksFilledAndClosed) => RecordsAreBlocks

=============================================================================
